---------------------------- MODULE Spec2Model ----------------------------
(***************************************************************************)
(* EasyTransfer geometry interchange codec.                                *)
(*                                                                         *)
(* Parts of the codec are modelled, each with its own specification        *)
(* over the shared variables:                                              *)
(*   SpecKnots  - ToJSON.calculate_knots / ToJSON.convert_nurbs            *)
(*                (src/easy_transfer_blender/easytransfer_blender.py)      *)
(*   SpecMesh   - Export.Mesh / Import.Mesh                                *)
(*                (src/build_WIP/rhino/library/ET_rhino.py)                *)
(*   SpecCrease - BlenderCopy.create_json_data / BlenderPaste.create_object*)
(*                (src/easy_transfer_blender/easy_transfer_blender.py)     *)
(*   SpecNames  - Execute.EasyCopy node names, Attribute.GetValidName      *)
(*                (src/build_WIP/rhino/library/ET_rhino.py)                *)
(*   SpecPaste  - Execute.EasyPaste of Rhino, BlenderPaste.execute and     *)
(*                EasyPaste.execute of Blender                             *)
(*   SpecMaya   - the world matrix through MayaCopy and MayaPaste          *)
(*                (src/build_WIP/maya/easycopy_maya.py)                    *)
(*   SpecAttr   - Attribute.Encode and Attribute.ImportMeshAttr            *)
(*                (src/build_WIP/rhino/library/ET_rhino.py)                *)
(*   SpecCreaseValues - ToJSON.convert_mesh / ToOBJ.create_mesh            *)
(*                (src/easy_transfer_blender/easytransfer_blender.py)      *)
(*   SpecProps  - Attribute.Export and the custom attributes of            *)
(*                ImportMeshAttr (src/build_WIP/rhino/library/ET_rhino.py) *)
(*   SpecAnalyze, SpecCurve - ToOBJ.analyze_knots, and ToOBJ.create_curve  *)
(*                on the records of convert_nurbs                          *)
(*                (src/easy_transfer_blender/easytransfer_blender.py)      *)
(*                                                                         *)
(* Python lists are sequences; list index i (0-based) is sequence index    *)
(* i+1.  Knot values are floats holding integers (float(i), float(a // b)  *)
(* + 1), so they are modelled as integers.                                 *)
(***************************************************************************)
EXTENDS Integers, Sequences, FiniteSets, TLC

VARIABLES
    \* ---- curve basis engine (calculate_knots, convert_nurbs) ----
    pcK,             \* "spline" -> "knots" -> "record" | "raised"
    pt,              \* spline.points: the control points, here their ids 1..n
    degree,          \* spline.order_u - 1
    use_cyclic_u,    \* spline.use_cyclic_u
    use_endpoint_u,  \* spline.use_endpoint_u
    use_bezier_u,    \* spline.use_bezier_u
    has_tolist,      \* whether the host's point objects offer tolist()
    knots,           \* knots returned by calculate_knots
    points,          \* points returned by calculate_knots
    json_obj,        \* the curve record built by convert_nurbs
    \* ---- Rhino topology codec (Export.Mesh, Import.Mesh) ----
    pcM,             \* "host" -> "exported" -> "imported"
    topo,            \* topo_verts.TopologyVertexIndex, per mesh vertex
    faces,           \* mesh.Faces: (A, B, C) or (A, B, C, D) per face
    ngons,           \* mesh.Ngons: boundary vertex list and face index list
    usd_mesh,        \* the Mesh prim written by Export.Mesh
    rh_mesh,         \* the mesh built by Import.Mesh
    \* ---- Blender JSON mesh exchange (create_json_data, create_object) ----
    pcB,             \* "source" -> "copied" -> "pasted"
    polygons,        \* mesh.polygons: the vertex list of each polygon
    edges,           \* mesh.edges: edge.vertices of each edge, in mesh order
    crease_domain,   \* domain of the attribute "crease_edge", or "absent"
    crease_values,   \* its value per edge, in hundredths
    obj_data,        \* the JSON object written by create_json_data
    new_mesh,        \* the mesh built by create_object
    \* ---- Rhino EasyCopy: node names (GetValidName, duplicate handling) ----
    pcN,             \* "naming" -> "done"
    rh_names,        \* rh_obj.Attributes.Name of each selected object
    name_i,          \* i of "for i, rh_obj in enumerate(rh_objs)"
    used_names,      \* used_names
    node_names,      \* valid_name handed to the exporter, per object
    \* ---- paste: Rhino Execute.EasyPaste, Blender BlenderPaste.execute and
    \*      EasyPaste.execute ----
    pcP,             \* position in the paste call, or how it ended
    host_app,        \* "rhino" | "blender_json" | "blender_usd"
    clipboard,       \* what the clipboard holds
    doc,             \* the document read from the file
    host_meters,     \* meters per unit of the host: current_meters_factor,
                     \* scene.unit_settings.scale_length (thousandths)
    world_scale,     \* world_scale of Rhino EasyPaste, a fraction
    node_i,          \* number of nodes of the document already visited
    host_objects,    \* objects added to the host by this call
    host_selection,  \* selected objects: 0 is an object of the host from
                     \* before the call, k > 0 is host_objects[k]
    selection_before, \* host_selection when the call started
    \* ---- Maya: world matrix through MayaCopy and MayaPaste ----
    pcX,             \* "scene" -> "copied" -> "pasted"
    mm,              \* transform_dag_path.inclusiveMatrix()
    flat_matrix,     \* obj_data["matrix"]
    pasted_matrix,   \* the world matrix cmds.xform sets on the new object
    \* ---- Rhino Attribute.Encode and the primvar loop of ImportMeshAttr ----
    pcA,             \* "attrs" -> "done"
    primvars,        \* UsdGeom.PrimvarsAPI(usd_prim).GetPrimvars()
    attr_i,          \* number of primvars already visited
    user_strings,    \* the user strings set on rh_attr: key -> value
    encode_args,     \* arguments of the last call of Attribute.Encode
    encoded,         \* what that call returned
    \* ---- Rhino Attribute.Export and the custom attributes of
    \*      ImportMeshAttr ----
    pcU,             \* "object" -> "exported" -> "imported" -> "object" ...
    first_strings,   \* the user strings of the object first exported
    rh_strings,      \* attrs.GetUserStrings() of the object being exported
    usd_props,       \* the custom attributes authored on usd_prim
    new_strings,     \* the user strings set on the new object
    trips,           \* export/import round trips finished
    \* ---- Blender ToOBJ.analyze_knots and ToOBJ.create_curve ----
    pcC,             \* "input" -> "analyzed"
    in_knots,        \* knots handed to analyze_knots
    in_degree,       \* degree
    in_count,        \* point_count
    analysis,        \* (is_closed, is_endpoint, is_bezier)
    new_spline       \* the flags create_curve sets on the new spline

varsK == <<pcK, pt, degree, use_cyclic_u, use_endpoint_u, use_bezier_u,
           has_tolist, knots, points, json_obj>>

varsM == <<pcM, topo, faces, ngons, usd_mesh, rh_mesh>>

varsB == <<pcB, polygons, edges, crease_domain, crease_values, obj_data,
           new_mesh>>

varsN == <<pcN, rh_names, name_i, used_names, node_names>>

varsP == <<pcP, host_app, clipboard, doc, host_meters, world_scale, node_i,
           host_objects, host_selection, selection_before>>

varsX == <<pcX, mm, flat_matrix, pasted_matrix>>

varsA == <<pcA, primvars, attr_i, user_strings, encode_args, encoded>>

varsU == <<pcU, first_strings, rh_strings, usd_props, new_strings, trips>>

varsC == <<pcC, in_knots, in_degree, in_count, analysis, new_spline>>

varsThird == <<varsU, varsC>>

varsFirst == <<varsK, varsM, varsB>>

varsLater == <<varsN, varsP, varsX, varsA, varsThird>>

vars == <<varsK, varsM, varsB, varsLater>>

IdleNames ==
    /\ pcN = "off"
    /\ rh_names = <<>>
    /\ name_i = 0
    /\ used_names = {}
    /\ node_names = <<>>

NoDoc == [kind |-> "none"]

One == [num |-> 1, den |-> 1]

IdlePaste ==
    /\ pcP = "off"
    /\ host_app = "none"
    /\ clipboard = "no_text"
    /\ doc = NoDoc
    /\ host_meters = 1
    /\ world_scale = One
    /\ node_i = 0
    /\ host_objects = <<>>
    /\ host_selection = {}
    /\ selection_before = {}

IdleMaya ==
    /\ pcX = "off"
    /\ mm = <<>>
    /\ flat_matrix = <<>>
    /\ pasted_matrix = <<>>

NoCall == [function |-> "none"]

None == [kind |-> "None"]

IdleAttr ==
    /\ pcA = "off"
    /\ primvars = <<>>
    /\ attr_i = 0
    /\ user_strings = <<>>
    /\ encode_args = NoCall
    /\ encoded = None

IdleProps ==
    /\ pcU = "off"
    /\ first_strings = <<>>
    /\ rh_strings = <<>>
    /\ usd_props = <<>>
    /\ new_strings = <<>>
    /\ trips = 0

NoAnalysis == [is_closed |-> FALSE, is_endpoint |-> FALSE, is_bezier |-> FALSE]

NoSpline == [created |-> FALSE]

IdleCurve ==
    /\ pcC = "off"
    /\ in_knots = <<>>
    /\ in_degree = 1
    /\ in_count = 0
    /\ analysis = NoAnalysis
    /\ new_spline = NoSpline

IdleThird ==
    /\ IdleProps
    /\ IdleCurve

IdleLater ==
    /\ IdleNames
    /\ IdlePaste
    /\ IdleMaya
    /\ IdleAttr
    /\ IdleThird

-----------------------------------------------------------------------------
(* Bounds of the model *)

MaxCount == 6
MaxDegree == 3
MaxVerts == 5
MaxFaces == 2
MaxPolys == 1
MaxCreased == 2

\* crease_data[i].value > 0.1, in hundredths
CreaseThreshold == 10

-----------------------------------------------------------------------------
(* Helpers for Python lists *)

\* the list [F(0), F(1), ..., F(n-1)]
ListOf(n, F(_)) == [j \in 1..n |-> F(j - 1)]

\* lst[i] with a 0-based index
At(lst, i) == lst[i + 1]

\* Python's floor division a // b for b > 0
FloorDiv(a, b) == IF a >= 0 THEN a \div b ELSE -(((-a) + b - 1) \div b)

\* Python's a % b for b > 0
PyMod(a, b) == a - b * FloorDiv(a, b)

RECURSIVE SumSeq(_)
SumSeq(s) == IF s = <<>> THEN 0 ELSE Head(s) + SumSeq(Tail(s))

Range(s) == {s[i] : i \in 1..Len(s)}

-----------------------------------------------------------------------------
(* ToJSON.calculate_knots: one operator per branch of the if/elif chain.   *)
(* Each returns the pair the function returns, as [knots, points].         *)

\* knots[i] = float((i - 1) // degree) + 1
SteppedKnot(i, d) == FloorDiv(i - 1, d) + 1

\* A and B and C: the loop runs over range(n_knots), index 0 included
knots_cyclic_endpoint_bezier(p, d) ==
    LET count == Len(p)
        n_knots == FloorDiv(count, d) * d + d + 1
    IN  IF PyMod(count, d) = 0
        THEN [knots |-> ListOf(n_knots, LAMBDA i : SteppedKnot(i, d)),
              points |-> <<>>]
        ELSE [knots |-> <<>>, points |-> <<>>]

\* A and B and not C
knots_cyclic_endpoint(p, d) ==
    LET count == Len(p)
        n_knots == count + 2 * d + 1
        \* the list after the first two loops
        k2(i) == IF i \in (d + 1)..count THEN i - d + 1
                 ELSE IF i \in 1..d THEN 1
                 ELSE 0
        end_clamp_val == k2(count) + 1
        k4(i) == IF i \in (count + d + 1)..(n_knots - 1)
                    THEN end_clamp_val + (i - (count + d))
                 ELSE IF i \in (count + 1)..(count + d) THEN end_clamp_val
                 ELSE k2(i)
    IN  [knots |-> ListOf(n_knots, k4), points |-> p]

\* a slip of the cyclic Bezier branch: the test count % degree == 0 is left out
knots_cyclic_bezier_unchecked(p, d) ==
    LET count == Len(p)
        n_knots == FloorDiv(count, d) * d + d + 1
    IN  [knots |-> ListOf(n_knots,
                      LAMBDA i : IF i >= 1 THEN SteppedKnot(i, d) ELSE 0),
         points |-> <<>>]

\* A and not B and C: the loop runs over range(1, n_knots), knots[0] stays 0.0
knots_cyclic_bezier(p, d) ==
    LET count == Len(p)
        n_knots == FloorDiv(count, d) * d + d + 1
    IN  IF PyMod(count, d) = 0
        THEN [knots |-> ListOf(n_knots,
                          LAMBDA i : IF i >= 1 THEN SteppedKnot(i, d) ELSE 0),
              points |-> <<>>]
        ELSE [knots |-> <<>>, points |-> <<>>]

\* A and not B and not C
knots_cyclic_uniform(p, d) ==
    LET count == Len(p)
        n_knots == count + 2 * d + 1
    IN  [knots |-> ListOf(n_knots, LAMBDA i : i), points |-> p]

\* not A and B and C
knots_endpoint_bezier(p, d) ==
    LET count == Len(p)
        n_knots == FloorDiv(count - 1, d) * d + 1 + d + 1
    IN  [knots |-> ListOf(n_knots,
                      LAMBDA i : IF i >= 1 THEN SteppedKnot(i, d) ELSE 0),
         points |-> <<>>]

\* a slip of the clamped-open branch: the tail loop starts one knot late
knots_endpoint_late_clamp(p, d) ==
    LET count == Len(p)
        n_knots == count + d + 1
        span_count == count - d
        k(i) == IF i \in (d + span_count + 1)..(n_knots - 1) THEN span_count
                ELSE IF (i - d) \in 1..(span_count - 1) THEN i - d
                ELSE 0
    IN  [knots |-> ListOf(n_knots, k), points |-> p]

\* not A and B and not C
knots_endpoint(p, d) ==
    LET count == Len(p)
        n_knots == count + d + 1
        span_count == count - d
        max_val == span_count
        k(i) == IF i \in (d + span_count)..(n_knots - 1) THEN max_val
                ELSE IF (i - d) \in 1..(span_count - 1) THEN i - d
                ELSE 0
    IN  [knots |-> ListOf(n_knots, k), points |-> p]

\* not A and not B and C
knots_bezier(p, d) ==
    LET count == Len(p)
        n_knots == FloorDiv(count - 2, d) * d + 1 + d + 1
    IN  [knots |-> ListOf(n_knots,
                      LAMBDA i : IF i >= 1 THEN SteppedKnot(i, d) ELSE 0),
         points |-> <<>>]

\* a slip of the uniform branch: the sequence starts at 1 instead of 0
knots_uniform_from_one(p, d) ==
    LET count == Len(p)
        n_knots == count + d + 1
    IN  [knots |-> ListOf(n_knots, LAMBDA i : i + 1), points |-> p]

\* not A and not B and not C
knots_uniform(p, d) ==
    LET count == Len(p)
        n_knots == count + d + 1
    IN  [knots |-> ListOf(n_knots, LAMBDA i : i), points |-> p]

calculate_knots(p, d, A, B, C) ==
    IF A /\ B /\ C THEN knots_cyclic_endpoint_bezier(p, d)
    ELSE IF A /\ B /\ ~C THEN knots_cyclic_endpoint(p, d)
    ELSE IF A /\ ~B /\ C THEN knots_cyclic_bezier(p, d)
    ELSE IF A /\ ~B /\ ~C THEN knots_cyclic_uniform(p, d)
    ELSE IF ~A /\ B /\ C THEN knots_endpoint_bezier(p, d)
    ELSE IF ~A /\ B /\ ~C THEN knots_endpoint(p, d)
    ELSE IF ~A /\ ~B /\ C THEN knots_bezier(p, d)
    ELSE knots_uniform(p, d)

-----------------------------------------------------------------------------
(* ToJSON.convert_nurbs *)

NoRecord == [type |-> "none"]

\* json_vertices = [{"co": c.tolist()} for c in points] raises AttributeError
\* on the first element when the point objects have no tolist(); an empty
\* list is never touched.
json_vertices_raises(pts, tolist) == pts # <<>> /\ ~tolist

convert_nurbs_record(k, pts, d, closed) ==
    [type |-> "NURBS", points |-> pts, degree |-> d, closed |-> closed,
     knots |-> k]

-----------------------------------------------------------------------------
(* Export.Mesh: faces of the Mesh prim.                                    *)
(* Vertex and face indices are the 0-based numbers the code uses.          *)

\* topo_idx(idx) = topo_verts.TopologyVertexIndex(idx)
topo_idx(tp, idx) == tp[idx + 1]

\* points = [Gf.Vec3f(...) for v in topo_verts]: one point per topology
\* vertex, here named by its topology index
export_points(tp) == ListOf(Cardinality(Range(tp)), LAMBDA i : i)

MapTopo(tp, vs) == [j \in 1..Len(vs) |-> topo_idx(tp, vs[j])]

\* 1. Export Ngons: the loop over mesh.Ngons.  An n-gon whose boundary list
\* is empty is passed over, and its faces are not marked processed.
RECURSIVE export_ngons(_, _)
export_ngons(tp, ngs) ==
    IF ngs = <<>>
    THEN [face_counts |-> <<>>, face_indices |-> <<>>, processed_faces |-> {}]
    ELSE LET ngon == Head(ngs)
             v_indices == ngon.boundary
             rest == export_ngons(tp, Tail(ngs))
         IN  IF Len(v_indices) > 0
             THEN [face_counts |-> <<Len(v_indices)>> \o rest.face_counts,
                   face_indices |-> MapTopo(tp, v_indices) \o rest.face_indices,
                   processed_faces |-> Range(ngon.faces) \cup rest.processed_faces]
             ELSE rest

\* a slip of the face loop: the processed_faces test is left out
RECURSIVE export_faces_unfiltered(_, _, _, _)
export_faces_unfiltered(tp, fs, processed, i) ==
    IF i >= Len(fs)
    THEN [face_counts |-> <<>>, face_indices |-> <<>>]
    ELSE LET rest == export_faces_unfiltered(tp, fs, processed, i + 1)
             f == At(fs, i)
         IN  [face_counts |-> <<Len(f)>> \o rest.face_counts,
              face_indices |-> MapTopo(tp, f) \o rest.face_indices]

\* a slip of the face loop: the raw mesh vertex index is written instead of
\* the topology vertex index
RECURSIVE export_faces_raw_index(_, _, _, _)
export_faces_raw_index(tp, fs, processed, i) ==
    IF i >= Len(fs)
    THEN [face_counts |-> <<>>, face_indices |-> <<>>]
    ELSE LET rest == export_faces_raw_index(tp, fs, processed, i + 1)
             f == At(fs, i)
         IN  IF i \in processed
             THEN rest
             ELSE [face_counts |-> <<Len(f)>> \o rest.face_counts,
                   face_indices |-> f \o rest.face_indices]

\* 2. Export remaining Faces: for i in range(faces.Count), from face i on.
\* f.IsQuad is Len(f) = 4; a quad writes A, B, C, D and a triangle A, B, C.
RECURSIVE export_faces(_, _, _, _)
export_faces(tp, fs, processed, i) ==
    IF i >= Len(fs)
    THEN [face_counts |-> <<>>, face_indices |-> <<>>]
    ELSE LET rest == export_faces(tp, fs, processed, i + 1)
             f == At(fs, i)
         IN  IF i \in processed
             THEN rest
             ELSE IF Len(f) = 4
             THEN [face_counts |-> <<4>> \o rest.face_counts,
                   face_indices |-> <<topo_idx(tp, f[1]), topo_idx(tp, f[2]),
                                      topo_idx(tp, f[3]), topo_idx(tp, f[4])>>
                                    \o rest.face_indices]
             ELSE [face_counts |-> <<3>> \o rest.face_counts,
                   face_indices |-> <<topo_idx(tp, f[1]), topo_idx(tp, f[2]),
                                      topo_idx(tp, f[3])>>
                                    \o rest.face_indices]

Export_Mesh(tp, fs, ngs) ==
    LET n == IF Len(ngs) > 0 THEN export_ngons(tp, ngs)
             ELSE [face_counts |-> <<>>, face_indices |-> <<>>,
                   processed_faces |-> {}]
        r == export_faces(tp, fs, n.processed_faces, 0)
    IN  [points |-> export_points(tp),
         faceVertexCounts |-> n.face_counts \o r.face_counts,
         faceVertexIndices |-> n.face_indices \o r.face_indices]

-----------------------------------------------------------------------------
(* Import.Mesh: faces and n-gons of the Rhino mesh *)

\* the triangles (v0, indices[idx_ptr+i+1], indices[idx_ptr+i+2]),
\* i in range(count - 2)
Fan(indices, idx_ptr, count) ==
    ListOf(IF count > 2 THEN count - 2 ELSE 0,
           LAMBDA i : <<At(indices, idx_ptr), At(indices, idx_ptr + i + 1),
                        At(indices, idx_ptr + i + 2)>>)

\* a slip of the quad branch: the corners are read in reverse
import_quad_reversed(indices, idx_ptr) ==
    <<At(indices, idx_ptr + 3), At(indices, idx_ptr + 2),
      At(indices, idx_ptr + 1), At(indices, idx_ptr)>>

import_quad(indices, idx_ptr) ==
    <<At(indices, idx_ptr), At(indices, idx_ptr + 1),
      At(indices, idx_ptr + 2), At(indices, idx_ptr + 3)>>

import_tri(indices, idx_ptr) ==
    <<At(indices, idx_ptr), At(indices, idx_ptr + 1), At(indices, idx_ptr + 2)>>

\* the highest index of indices_attr one pass of the loop reads; reading
\* past the end raises IndexError
LastRead(idx_ptr, count) ==
    IF count >= 3 THEN idx_ptr + count - 1 ELSE idx_ptr

\* 2. Add Faces: for count in counts_attr, carrying mesh_faces, ngon_data and
\* idx_ptr
RECURSIVE import_faces(_, _, _, _, _)
import_faces(counts, indices, idx_ptr, mesh_faces, ngon_data) ==
    IF counts = <<>>
    THEN [raised |-> FALSE, mesh_faces |-> mesh_faces, ngon_data |-> ngon_data]
    ELSE LET count == Head(counts)
         IN  IF LastRead(idx_ptr, count) >= Len(indices)
             THEN [raised |-> TRUE, mesh_faces |-> mesh_faces,
                   ngon_data |-> ngon_data]
             ELSE IF count = 3
             THEN import_faces(Tail(counts), indices, idx_ptr + count,
                               Append(mesh_faces, import_tri(indices, idx_ptr)),
                               ngon_data)
             ELSE IF count = 4
             THEN import_faces(Tail(counts), indices, idx_ptr + count,
                               Append(mesh_faces, import_quad(indices, idx_ptr)),
                               ngon_data)
             ELSE LET start_face_idx == Len(mesh_faces)
                      run == Fan(indices, idx_ptr, count)
                      new_face_indices ==
                          ListOf(Len(run), LAMBDA i : start_face_idx + i)
                  IN  import_faces(Tail(counts), indices, idx_ptr + count,
                                   mesh_faces \o run,
                                   Append(ngon_data, new_face_indices))

\* v_indices after the passes i = 0..upto of the loop over f_indices
RECURSIVE ngon_v_indices(_, _, _)
ngon_v_indices(rh_faces, f_indices, upto) ==
    IF upto < 0 THEN <<>>
    ELSE LET f == At(rh_faces, At(f_indices, upto))
             before == ngon_v_indices(rh_faces, f_indices, upto - 1)
         IN  IF upto = 0 THEN before \o <<f[1], f[2]>>
             ELSE IF upto = Len(f_indices) - 1 THEN before \o <<f[2], f[3]>>
             ELSE before \o <<f[2]>>

\* MeshNgon.Create(v_indices, f_indices) and ngons.append(ngon) are inside
\* the loop over f_indices: every pass appends a record holding v_indices as
\* it stands after that pass
ngon_records(rh_faces, f_indices) ==
    ListOf(Len(f_indices),
           LAMBDA i : [v_indices |-> ngon_v_indices(rh_faces, f_indices, i),
                       f_indices |-> f_indices])

\* 4. Reconstruct Ngons: for f_indices in ngon_data
RECURSIVE reconstruct_ngons(_, _)
reconstruct_ngons(rh_faces, ngon_data) ==
    IF ngon_data = <<>> THEN <<>>
    ELSE ngon_records(rh_faces, Head(ngon_data))
         \o reconstruct_ngons(rh_faces, Tail(ngon_data))

NoMesh == [result |-> "none", faces |-> <<>>, ngon_data |-> <<>>,
           ngons |-> <<>>]

\* The document modelled carries no crease attributes, so step 3 (Unweld
\* Edges) is passed over and rh_mesh.Faces holds mesh_faces as added.
Import_Mesh(usd) ==
    IF usd.points = <<>> \/ usd.faceVertexCounts = <<>>
       \/ usd.faceVertexIndices = <<>>
    THEN NoMesh
    ELSE LET r == import_faces(usd.faceVertexCounts, usd.faceVertexIndices,
                               0, <<>>, <<>>)
         IN  IF r.raised
             THEN [result |-> "raised", faces |-> <<>>, ngon_data |-> <<>>,
                   ngons |-> <<>>]
             ELSE [result |-> "mesh", faces |-> r.mesh_faces,
                   ngon_data |-> r.ngon_data,
                   ngons |-> reconstruct_ngons(r.mesh_faces, r.ngon_data)]

-----------------------------------------------------------------------------
(* The host meshes Export.Mesh is given *)

Injective(tp, vs) ==
    \A i, j \in 1..Len(vs) : i # j => topo_idx(tp, vs[i]) # topo_idx(tp, vs[j])

\* every mesh vertex its own topology vertex, or the last mesh vertex
\* coincident with vertex 0
TopoChoices(nv) ==
    { [v \in 1..nv |-> v - 1],
      [v \in 1..nv |-> IF v = nv THEN 0 ELSE v - 1] }

\* triangles over three consecutive vertices from any start, and quads over
\* four from the first and from the last vertex (the windows wrap around)
FaceChoices(nv) ==
    {ListOf(3, LAMBDA j : (i + j) % nv) : i \in 0..(nv - 1)}
    \cup {ListOf(4, LAMBDA j : (i + j) % nv) :
             i \in (IF nv >= 4 THEN {0, nv - 1} ELSE {})}

\* n-gon boundaries: none, all the vertices starting at vertex 1, or all but
\* the last vertex in reverse
BoundaryChoices(nv) ==
    { <<>>,
      ListOf(nv, LAMBDA j : (j + 1) % nv),
      ListOf(nv - 1, LAMBDA j : nv - 2 - j) }

OwnedFaces(ngs) == UNION {Range(ngs[i].faces) : i \in 1..Len(ngs)}

\* the ascending list of the members of a set of numbers
RECURSIVE SortedList(_)
SortedList(S) ==
    IF S = {} THEN <<>>
    ELSE LET m == CHOOSE x \in S : \A y \in S : x <= y
         IN  <<m>> \o SortedList(S \ {m})

IdleMesh ==
    /\ pcM = "off"
    /\ topo = <<>>
    /\ faces = <<>>
    /\ ngons = <<>>
    /\ usd_mesh = [points |-> <<>>, faceVertexCounts |-> <<>>,
                   faceVertexIndices |-> <<>>]
    /\ rh_mesh = NoMesh

-----------------------------------------------------------------------------
(* BlenderCopy.create_json_data and BlenderPaste.create_object: edges and  *)
(* creases of the JSON mesh.  Crease values are in hundredths.             *)

\* tuple(sorted((a, b)))
SortedPair(a, b) == IF a <= b THEN <<a, b>> ELSE <<b, a>>

\* crease_data: att.data when "crease_edge" exists with domain 'EDGE',
\* None otherwise
crease_data(domain, values) == IF domain = "EDGE" THEN values ELSE <<>>

\* tag = "Crease" if crease_data and crease_data[i].value > 0.1
edge_tag(cd, i) ==
    IF cd # <<>> /\ At(cd, i) > CreaseThreshold THEN "Crease" ELSE "Smooth"

\* 2. Edges: every edge of the mesh with its tag
json_edges(es, cd) ==
    ListOf(Len(es), LAMBDA i : [ids |-> At(es, i), tag |-> edge_tag(cd, i)])

\* 3. Faces
json_faces(polys) == ListOf(Len(polys), LAMBDA i : [ids |-> At(polys, i)])

create_json_data(polys, es, domain, values) ==
    [type |-> "Mesh",
     edges |-> json_edges(es, crease_data(domain, values)),
     faces |-> json_faces(polys)]

\* a slip of the pair key: the ids are kept in the order the file gives them
creased_pairs_unsorted(data) ==
    {data.edges[i].ids : i \in {j \in 1..Len(data.edges) :
                                    data.edges[j].tag = "Crease"}}

\* 3. Apply Creases: the set of sorted pairs of the edges tagged "Crease"
creased_pairs(data) ==
    {SortedPair(data.edges[i].ids[1], data.edges[i].ids[2]) :
        i \in {j \in 1..Len(data.edges) :
                  data.edges[j].tag = "Crease" /\ Len(data.edges[j].ids) = 2}}

\* values[i] = 1.0 for every edge of the new mesh whose sorted pair is in
\* creased_pairs; with no creased pair the attribute is not created
new_crease_values(mesh_edges, pairs) ==
    IF pairs = {} THEN <<>>
    ELSE ListOf(Len(mesh_edges),
                LAMBDA i : IF SortedPair(At(mesh_edges, i)[1], At(mesh_edges, i)[2])
                              \in pairs
                           THEN 100 ELSE 0)

\* mesh.from_pydata(verts_loc, [], faces_indices): the host derives the
\* edges from the polygons alone; these are their unordered vertex pairs
PolygonPairs(polys) ==
    UNION { {SortedPair(polys[q][j], polys[q][(j % Len(polys[q])) + 1]) :
                j \in 1..Len(polys[q])} : q \in 1..Len(polys) }

\* the host numbers and orients the derived edges as it sees fit; two
\* numberings stand for that: ascending pairs, and descending pairs turned
\* around
RECURSIVE AscendingPairs(_)
AscendingPairs(S) ==
    IF S = {} THEN <<>>
    ELSE LET m == CHOOSE x \in S : \A y \in S :
                     x[1] < y[1] \/ (x[1] = y[1] /\ x[2] <= y[2])
         IN  <<m>> \o AscendingPairs(S \ {m})

Turned(es) == [i \in 1..Len(es) |-> <<es[Len(es) + 1 - i][2], es[Len(es) + 1 - i][1]>>]

HostEdgeNumberings(polys) ==
    { AscendingPairs(PolygonPairs(polys)), Turned(AscendingPairs(PolygonPairs(polys))) }

NoObject == [created |-> FALSE, edges |-> <<>>, has_crease_att |-> FALSE,
             values |-> <<>>]

create_object(data, mesh_edges) ==
    LET pairs == creased_pairs(data)
    IN  [created |-> TRUE,
         edges |-> mesh_edges,
         has_crease_att |-> pairs # {},
         values |-> new_crease_values(mesh_edges, pairs)]

\* the source meshes: polygons over consecutive vertices, and one edge
\* that may belong to no polygon
PolyChoices(nv) ==
    {ListOf(3, LAMBDA j : (i + j) % nv) : i \in 0..(nv - 1)}
    \cup {ListOf(4, LAMBDA j : (i + j) % nv) : i \in {0, nv - 1}}

LooseEdge(nv) == <<nv - 1, 1>>

EdgePairs(es) == {SortedPair(es[i][1], es[i][2]) : i \in 1..Len(es)}

\* the edges of polygon f that the mesh does not hold yet, in winding order
RECURSIVE NewPolygonEdges(_, _, _)
NewPolygonEdges(f, known, j) ==
    IF j > Len(f) THEN <<>>
    ELSE LET e == <<f[j], f[(j % Len(f)) + 1]>>
         IN  IF SortedPair(e[1], e[2]) \in known
             THEN NewPolygonEdges(f, known, j + 1)
             ELSE <<e>> \o NewPolygonEdges(f, known \cup {SortedPair(e[1], e[2])}, j + 1)

IdleBlender ==
    /\ pcB = "off"
    /\ polygons = <<>>
    /\ edges = <<>>
    /\ crease_domain = "absent"
    /\ crease_values = <<>>
    /\ obj_data = [type |-> "none"]
    /\ new_mesh = NoObject

-----------------------------------------------------------------------------
(* Specification SpecKnots *)

InitKnots ==
    /\ pcK = "spline"
    /\ \E n \in 1..MaxCount : pt = [i \in 1..n |-> i]
    /\ degree \in 1..MaxDegree
    /\ use_cyclic_u \in BOOLEAN
    /\ use_endpoint_u \in BOOLEAN
    /\ use_bezier_u \in BOOLEAN
    /\ has_tolist \in BOOLEAN
    /\ knots = <<>>
    /\ points = <<>>
    /\ json_obj = NoRecord
    /\ IdleMesh
    /\ IdleBlender
    /\ IdleLater

\* convert_nurbs, line 267: the call of calculate_knots
CalculateKnots ==
    /\ pcK = "spline"
    /\ LET r == calculate_knots(pt, degree, use_cyclic_u, use_endpoint_u,
                                use_bezier_u)
       IN  /\ knots' = r.knots
           /\ points' = r.points
    /\ pcK' = "knots"
    /\ UNCHANGED <<pt, degree, use_cyclic_u, use_endpoint_u, use_bezier_u,
                   has_tolist, json_obj>>
    /\ UNCHANGED <<varsM, varsB, varsLater>>

\* convert_nurbs, lines 269-282: the record is built from the returned pair
ConvertNurbs ==
    /\ pcK = "knots"
    /\ IF json_vertices_raises(points, has_tolist)
       THEN /\ pcK' = "raised"
            /\ json_obj' = NoRecord
       ELSE /\ pcK' = "record"
            /\ json_obj' = convert_nurbs_record(knots, points, degree,
                                                use_cyclic_u)
    /\ UNCHANGED <<pt, degree, use_cyclic_u, use_endpoint_u, use_bezier_u,
                   has_tolist, knots, points>>
    /\ UNCHANGED <<varsM, varsB, varsLater>>

NextKnots == CalculateKnots \/ ConvertNurbs

SpecKnots == InitKnots /\ [][NextKnots]_vars

-----------------------------------------------------------------------------
(* Specification SpecMesh: a host mesh is put together, exported by        *)
(* Export.Mesh and read back by Import.Mesh.                               *)

IdleKnots ==
    /\ pcK = "off"
    /\ pt = <<>>
    /\ degree = 1
    /\ use_cyclic_u = FALSE
    /\ use_endpoint_u = FALSE
    /\ use_bezier_u = FALSE
    /\ has_tolist = FALSE
    /\ knots = <<>>
    /\ points = <<>>
    /\ json_obj = NoRecord

InitMesh ==
    /\ pcM = "host"
    /\ \E nv \in 3..MaxVerts : topo \in TopoChoices(nv)
    /\ faces = <<>>
    /\ ngons = <<>>
    /\ usd_mesh = [points |-> <<>>, faceVertexCounts |-> <<>>,
                   faceVertexIndices |-> <<>>]
    /\ rh_mesh = NoMesh
    /\ IdleKnots
    /\ IdleBlender
    /\ IdleLater

\* the host mesh gains a face
AddFace ==
    /\ pcM = "host"
    /\ Len(faces) < MaxFaces
    /\ \E f \in FaceChoices(Len(topo)) :
          /\ Injective(topo, f)
          /\ faces' = Append(faces, f)
    /\ UNCHANGED <<pcM, topo, ngons, usd_mesh, rh_mesh>>
    /\ UNCHANGED <<varsK, varsB, varsLater>>

\* the host mesh gains an n-gon over faces no other n-gon owns
AddNgon ==
    /\ pcM = "host"
    /\ \E fs \in SUBSET ((0..(Len(faces) - 1)) \ OwnedFaces(ngons)) :
       \E b \in BoundaryChoices(Len(topo)) :
          /\ fs # {}
          /\ Injective(topo, b)
          /\ ngons' = Append(ngons, [boundary |-> b, faces |-> SortedList(fs)])
    /\ UNCHANGED <<pcM, topo, faces, usd_mesh, rh_mesh>>
    /\ UNCHANGED <<varsK, varsB, varsLater>>

ExportMesh ==
    /\ pcM = "host"
    /\ Len(faces) > 0
    /\ usd_mesh' = Export_Mesh(topo, faces, ngons)
    /\ pcM' = "exported"
    /\ UNCHANGED <<topo, faces, ngons, rh_mesh>>
    /\ UNCHANGED <<varsK, varsB, varsLater>>

ImportMesh ==
    /\ pcM = "exported"
    /\ rh_mesh' = Import_Mesh(usd_mesh)
    /\ pcM' = "imported"
    /\ UNCHANGED <<topo, faces, ngons, usd_mesh>>
    /\ UNCHANGED <<varsK, varsB, varsLater>>

NextMesh == AddFace \/ AddNgon \/ ExportMesh \/ ImportMesh

SpecMesh == InitMesh /\ [][NextMesh]_vars

-----------------------------------------------------------------------------
(* Specification SpecCrease: a Blender mesh is put together, written by    *)
(* create_json_data and rebuilt by create_object.                          *)

InitCrease ==
    /\ pcB = "source"
    /\ polygons = <<>>
    /\ edges = <<>>
    /\ crease_domain \in {"absent", "EDGE", "FACE"}
    /\ crease_values = <<>>
    /\ obj_data = [type |-> "none"]
    /\ new_mesh = NoObject
    /\ IdleKnots
    /\ IdleMesh
    /\ IdleLater

AddPolygon ==
    /\ pcB = "source"
    /\ Len(polygons) < MaxPolys
    /\ \E f \in PolyChoices(MaxVerts) :
          LET more == NewPolygonEdges(f, EdgePairs(edges), 1)
          IN  /\ polygons' = Append(polygons, f)
              /\ edges' = edges \o more
              /\ crease_values' = crease_values \o [i \in 1..Len(more) |-> 0]
    /\ UNCHANGED <<pcB, crease_domain, obj_data, new_mesh>>
    /\ UNCHANGED <<varsK, varsM, varsLater>>

AddLooseEdge ==
    /\ pcB = "source"
    /\ SortedPair(LooseEdge(MaxVerts)[1], LooseEdge(MaxVerts)[2]) \notin EdgePairs(edges)
    /\ edges' = Append(edges, LooseEdge(MaxVerts))
    /\ crease_values' = Append(crease_values, 0)
    /\ UNCHANGED <<pcB, polygons, crease_domain, obj_data, new_mesh>>
    /\ UNCHANGED <<varsK, varsM, varsLater>>

\* an edge is given a crease value, below or above the threshold
SetCrease ==
    /\ pcB = "source"
    /\ crease_domain = "EDGE"
    /\ Cardinality({i \in 1..Len(edges) : crease_values[i] # 0}) < MaxCreased
    /\ \E i \in 1..Len(edges) : \E v \in {CreaseThreshold \div 2, 10 * CreaseThreshold} :
          /\ crease_values[i] = 0
          /\ crease_values' = [crease_values EXCEPT ![i] = v]
    /\ UNCHANGED <<pcB, polygons, edges, crease_domain, obj_data, new_mesh>>
    /\ UNCHANGED <<varsK, varsM, varsLater>>

CopyMesh ==
    /\ pcB = "source"
    /\ obj_data' = create_json_data(polygons, edges, crease_domain, crease_values)
    /\ pcB' = "copied"
    /\ UNCHANGED <<polygons, edges, crease_domain, crease_values, new_mesh>>
    /\ UNCHANGED <<varsK, varsM, varsLater>>

PasteMesh ==
    /\ pcB = "copied"
    /\ \E numbering \in HostEdgeNumberings(
                           [i \in 1..Len(obj_data.faces) |-> obj_data.faces[i].ids]) :
          new_mesh' = create_object(obj_data, numbering)
    /\ pcB' = "pasted"
    /\ UNCHANGED <<polygons, edges, crease_domain, crease_values, obj_data>>
    /\ UNCHANGED <<varsK, varsM, varsLater>>

NextCrease == AddPolygon \/ AddLooseEdge \/ SetCrease \/ CopyMesh \/ PasteMesh

SpecCrease == InitCrease /\ [][NextCrease]_vars

-----------------------------------------------------------------------------
(* Properties of the curve basis engine *)

KnotsComputed == pcK # "spline"
NoneOfCEB == ~use_cyclic_u /\ use_endpoint_u /\ ~use_bezier_u

\* C6: calculate_knots with cyclic=false, endpoint=true, bezier=false and
\* n >= d+1 control points returns exactly n+d+1 knots: the first d+1 are 0,
\* knot[d+i] = i for 1 <= i < n-d, and the last d+1 all equal n-d; n=6, d=3
\* gives [0,0,0,0,1,2,3,3,3,3].
C6_ClampedOpenKnots ==
    (KnotsComputed /\ NoneOfCEB /\ Len(pt) >= degree + 1) =>
        LET n == Len(pt)
            d == degree
        IN  /\ Len(knots) = n + d + 1
            /\ \A i \in 0..d : At(knots, i) = 0
            /\ \A i \in 1..(n - d - 1) : At(knots, d + i) = i
            /\ \A i \in n..(n + d) : At(knots, i) = n - d
            /\ (n = 6 /\ d = 3) => knots = <<0, 0, 0, 0, 1, 2, 3, 3, 3, 3>>

C6_Witness ==
    /\ pcK = "knots" /\ NoneOfCEB
    /\ Len(pt) = 6 /\ degree = 3
    /\ knots = <<0, 0, 0, 0, 1, 2, 3, 3, 3, 3>>

\* C7: calculate_knots with endpoint=false and bezier=false returns the
\* uniform integer sequence knot[i] = i, of length n+d+1 when cyclic=false and
\* n+2d+1 when cyclic=true, for every n >= 1 and d >= 1; n=4, d=3,
\* cyclic=false gives [0,1,2,3,4,5,6,7].
C7_UniformKnots ==
    (KnotsComputed /\ ~use_endpoint_u /\ ~use_bezier_u) =>
        LET n == Len(pt)
            d == degree
        IN  /\ Len(knots) = IF use_cyclic_u THEN n + 2 * d + 1 ELSE n + d + 1
            /\ \A i \in 0..(Len(knots) - 1) : At(knots, i) = i
            /\ (n = 4 /\ d = 3 /\ ~use_cyclic_u)
                   => knots = <<0, 1, 2, 3, 4, 5, 6, 7>>

C7_Witness ==
    /\ pcK = "knots" /\ ~use_endpoint_u /\ ~use_bezier_u /\ ~use_cyclic_u
    /\ Len(pt) = 4 /\ degree = 3
    /\ knots = <<0, 1, 2, 3, 4, 5, 6, 7>>

\* C8: calculate_knots with cyclic=true and bezier=true (either endpoint
\* value) returns an empty knot vector exactly when n mod d # 0; when
\* n mod d = 0 it returns (n/d)*d + d + 1 knots with knot[0] = 0 and
\* knot[i] = floor((i-1)/d) + 1 for i >= 1.
C8_CyclicBezierKnots ==
    (KnotsComputed /\ use_cyclic_u /\ use_bezier_u) =>
        LET n == Len(pt)
            d == degree
        IN  /\ (knots = <<>>) <=> (n % d # 0)
            /\ (n % d = 0) =>
                  /\ Len(knots) = (n \div d) * d + d + 1
                  /\ At(knots, 0) = 0
                  /\ \A i \in 1..(Len(knots) - 1) :
                        At(knots, i) = ((i - 1) \div d) + 1

C8_Witness ==
    /\ pcK = "knots" /\ use_cyclic_u /\ use_bezier_u /\ use_endpoint_u
    /\ Len(pt) = 4 /\ degree = 2
    /\ knots = <<0, 1, 1, 2, 2, 3, 3>>

\* C9: for every n >= 1, d >= 1 and each of the eight flag combinations,
\* whenever calculate_knots returns a non-empty knot vector,
\* len(knots) = len(points) + d + 1, plus d more when cyclic is true, where
\* points is the control-point list returned with the knots and exported in
\* the curve record.
C9_KnotCountInvariant ==
    /\ (KnotsComputed /\ knots # <<>>) =>
          Len(knots) = Len(points) + degree + 1
                       + (IF use_cyclic_u THEN degree ELSE 0)
    /\ (pcK = "record" /\ json_obj.knots # <<>>) =>
          Len(json_obj.knots) = Len(json_obj.points) + json_obj.degree + 1
                                + (IF json_obj.closed THEN json_obj.degree ELSE 0)

\* C10: for every n >= 1, d >= 1 and each of the eight flag combinations, the
\* knot vector returned by calculate_knots is non-decreasing, including
\* control-point counts smaller than or equal to the degree.
C10_KnotsNonDecreasing ==
    KnotsComputed =>
        \A i \in 1..(Len(knots) - 1) : knots[i] <= knots[i + 1]

-----------------------------------------------------------------------------
(* Properties of the Rhino topology codec *)

\* The faces a Mesh prim holds, read off its two arrays: face p (from 1)
\* is the slice of faceVertexIndices its count selects.
DocOffset(usd, p) == SumSeq(SubSeq(usd.faceVertexCounts, 1, p - 1))
DocFace(usd, p) ==
    SubSeq(usd.faceVertexIndices, DocOffset(usd, p) + 1,
           DocOffset(usd, p) + usd.faceVertexCounts[p])
DocFaces(usd) == [p \in 1..Len(usd.faceVertexCounts) |-> DocFace(usd, p)]

TopoFace(f) == [j \in 1..Len(f) |-> topo[f[j] + 1]]

\* the n-gons Export.Mesh writes (those with a boundary) and the faces
\* outside all of them
LiveNgons == {g \in 1..Len(ngons) : ngons[g].boundary # <<>>}
FacesInLiveNgons == UNION {Range(ngons[g].faces) : g \in LiveNgons}
FacesOutside == (0..(Len(faces) - 1)) \ FacesInLiveNgons

C2_NgonsEmittedOnce ==
    (pcM # "host" /\ pcM # "off") =>
        LET E == DocFaces(usd_mesh)
            Emitted(x) == Cardinality({p \in 1..Len(E) : E[p] = x})
            FromNgons(x) ==
                Cardinality({g \in LiveNgons : TopoFace(ngons[g].boundary) = x})
            FromFaces(x) ==
                Cardinality({i \in FacesOutside : TopoFace(At(faces, i)) = x})
        IN  /\ Len(E) = Cardinality(LiveNgons) + Cardinality(FacesOutside)
            /\ \A g \in LiveNgons :
                  \E p \in 1..Len(E) :
                     /\ usd_mesh.faceVertexCounts[p] = Len(ngons[g].boundary)
                     /\ E[p] = TopoFace(ngons[g].boundary)
            /\ \A i \in FacesOutside :
                  \E p \in 1..Len(E) :
                     /\ usd_mesh.faceVertexCounts[p] \in {3, 4}
                     /\ E[p] = TopoFace(At(faces, i))
            /\ \A p \in 1..Len(E) : Emitted(E[p]) = FromNgons(E[p]) + FromFaces(E[p])

C2_Witness ==
    /\ pcM = "exported"
    /\ Len(faces) = 2 /\ Len(ngons) = 1
    /\ ngons[1].boundary # <<>> /\ ngons[1].faces = <<1>>
    /\ Len(usd_mesh.faceVertexCounts) = 2
    /\ usd_mesh.faceVertexCounts[1] = Len(ngons[1].boundary)

\* a is b started somewhere else: the same cyclic order
IsRotation(a, b) ==
    /\ Len(a) = Len(b)
    /\ \E r \in 0..(Len(a) - 1) :
          \A j \in 1..Len(a) : a[j] = b[((j - 1 + r) % Len(a)) + 1]

\* the number of mesh faces Import.Mesh has added before document face p
FacesBefore(usd, p) ==
    SumSeq([q \in 1..(p - 1) |->
               IF usd.faceVertexCounts[q] \in {3, 4} THEN 1
               ELSE usd.faceVertexCounts[q] - 2])

\* C3: in Import.Mesh a face with count k > 4 and vertex sequence
\* v0..v(k-1) is fan-triangulated from v0 into exactly k-2 triangles
\* (v0, v(i+1), v(i+2)), and the boundary loop rebuilt from that triangle run
\* visits all k original vertices exactly once in the original cyclic order
\* (up to rotation).
C3_FanAndBoundary ==
    (pcM = "imported" /\ rh_mesh.result = "mesh") =>
        \A p \in 1..Len(usd_mesh.faceVertexCounts) :
            LET k == usd_mesh.faceVertexCounts[p]
                v == DocFace(usd_mesh, p)
                start == FacesBefore(usd_mesh, p)
                run == [i \in 1..(k - 2) |-> start + i - 1]
            IN  k > 4 =>
                  /\ \A i \in 0..(k - 3) :
                        At(rh_mesh.faces, start + i) = <<v[1], v[i + 2], v[i + 3]>>
                  /\ \E n \in 1..Len(rh_mesh.ngons) :
                        rh_mesh.ngons[n].f_indices = run
                  /\ \A n \in 1..Len(rh_mesh.ngons) :
                        rh_mesh.ngons[n].f_indices = run =>
                           IsRotation(rh_mesh.ngons[n].v_indices, v)

\* the part of C3 the code keeps: the triangle run, and the boundary list as
\* it stands once the loop over the run has ended
C3_FanAndLastBoundary ==
    (pcM = "imported" /\ rh_mesh.result = "mesh") =>
        \A p \in 1..Len(usd_mesh.faceVertexCounts) :
            LET k == usd_mesh.faceVertexCounts[p]
                v == DocFace(usd_mesh, p)
                start == FacesBefore(usd_mesh, p)
                run == [i \in 1..(k - 2) |-> start + i - 1]
                recs == {n \in 1..Len(rh_mesh.ngons) :
                            rh_mesh.ngons[n].f_indices = run}
            IN  k > 4 =>
                  /\ \A i \in 0..(k - 3) :
                        At(rh_mesh.faces, start + i) = <<v[1], v[i + 2], v[i + 3]>>
                  /\ recs # {}
                  /\ \A n \in recs :
                        (\A m \in recs : m <= n) =>
                            rh_mesh.ngons[n].v_indices = v

\* C4: for every mesh exported by Export.Mesh (any mix of triangles, quads
\* and n-gons) sum(faceVertexCounts) = len(faceVertexIndices) and every
\* emitted face-vertex index is smaller than the number of emitted points.
C4_ExportTopologyInvariant ==
    (pcM # "host" /\ pcM # "off") =>
        /\ SumSeq(usd_mesh.faceVertexCounts) = Len(usd_mesh.faceVertexIndices)
        /\ \A j \in 1..Len(usd_mesh.faceVertexIndices) :
              /\ usd_mesh.faceVertexIndices[j] >= 0
              /\ usd_mesh.faceVertexIndices[j] < Len(usd_mesh.points)

C4_Witness ==
    /\ pcM = "exported"
    /\ topo[Len(topo)] = 0
    /\ Len(faces) = 2 /\ Len(ngons) = 1
    /\ ngons[1].boundary # <<>> /\ ngons[1].faces = <<0>>
    /\ Len(faces[2]) = 4
    /\ usd_mesh.faceVertexCounts = <<Len(ngons[1].boundary), 4>>
    /\ Len(usd_mesh.points) = Len(topo) - 1

-----------------------------------------------------------------------------
(* Properties of the Blender JSON mesh exchange *)

\* the unordered vertex pairs that are sharp in the source mesh
SourceSharpPairs ==
    {SortedPair(edges[i][1], edges[i][2]) :
        i \in {j \in 1..Len(edges) :
                  crease_domain = "EDGE" /\ crease_values[j] > CreaseThreshold}}

\* edge i of the rebuilt mesh is marked sharp
MarkedSharp(i) == new_mesh.has_crease_att /\ new_mesh.values[i] > 0

-----------------------------------------------------------------------------
(* Execute.EasyCopy, lines 789-808, and Attribute.GetValidName: the name   *)
(* of each exported node.  A name is a sequence of characters; a character *)
(* is a one-letter string, or "U+xxxx" for a character outside ASCII.      *)

MaxObjs == 3

AsciiLetters == {"A", "R", "h", "i", "n", "o", "O", "b", "j", "e", "c", "t"}
AsciiDigits == {"0", "1", "2", "3", "4", "5", "6", "7", "8", "9"}
\* U+00E9 (e with acute): str.isalnum() is True, str.isdigit() is False
\* U+0663 (Arabic-Indic digit three): isalnum() and isdigit() are both True
OtherLetters == {"U+00E9"}
OtherDigits == {"U+0663"}

\* c.isalnum()
isalnum(c) == c \in AsciiLetters \cup AsciiDigits \cup OtherLetters \cup OtherDigits

\* c.isdigit()
isdigit(c) == c \in AsciiDigits \cup OtherDigits

\* Attribute.GetValidName; None and "" are both the empty sequence, the
\* caller only tests "not valid_name"
GetValidName(name) ==
    IF name = <<>> THEN <<>>
    ELSE LET valid_name == [k \in 1..Len(name) |->
                               IF isalnum(name[k]) \/ name[k] = "_"
                               THEN name[k] ELSE "_"]
         IN  IF isdigit(valid_name[1]) THEN <<"_">> \o valid_name
             ELSE valid_name

DigitChar == <<"0", "1", "2", "3", "4", "5", "6", "7", "8", "9">>

\* the decimal text of a small number, as an f-string writes it
RECURSIVE DecStr(_)
DecStr(n) ==
    IF n < 10 THEN <<DigitChar[n + 1]>>
    ELSE DecStr(n \div 10) \o <<DigitChar[(n % 10) + 1]>>

\* f"RhinoObject_{i}"
RhinoObjectName(i) ==
    <<"R", "h", "i", "n", "o", "O", "b", "j", "e", "c", "t", "_">> \o DecStr(i)

\* f"{base_name}_{dup_count}"
Suffixed(base_name, dup_count) == base_name \o <<"_">> \o DecStr(dup_count)

\* a duplicate handling that appends the counter once and does not look again
dedup_no_recheck(base_name, used, dup_count) == Suffixed(base_name, dup_count)

\* lines 804-806: the body of "while valid_name in used_names", entered with
\* valid_name in used_names
RECURSIVE dedup(_, _, _)
dedup(base_name, used, dup_count) ==
    LET valid_name == Suffixed(base_name, dup_count)
    IN  IF valid_name \in used THEN dedup(base_name, used, dup_count + 1)
        ELSE valid_name

\* lines 795-799: the name before duplicates are handled
base_name_of(raw_name, i) ==
    LET valid_name == GetValidName(raw_name)
    IN  IF valid_name = <<>> THEN RhinoObjectName(i) ELSE valid_name

\* lines 795-806: the name given to object i
assign_name(raw_name, i, used) ==
    LET base_name == base_name_of(raw_name, i)
    IN  IF base_name \in used THEN dedup(base_name, used, 1) ELSE base_name

\* names of the selected objects: empty, plain, already suffixed, with a
\* character to replace, with a leading digit, equal to a fallback name,
\* and with letters and digits outside ASCII
NameChoices ==
    { <<>>,
      <<"A">>,
      <<"A", "_", "1">>,
      <<"A", "-", "1">>,
      <<"7", "A">>,
      RhinoObjectName(1),
      <<"U+00E9">>,
      <<"U+0663", "A">> }

IdleFirst ==
    /\ IdleKnots
    /\ IdleMesh
    /\ IdleBlender

InitNames ==
    /\ pcN = "naming"
    /\ \E n \in 1..MaxObjs : rh_names \in [1..n -> NameChoices]
    /\ name_i = 0
    /\ used_names = {}
    /\ node_names = <<>>
    /\ IdleFirst
    /\ IdleThird
    /\ IdlePaste
    /\ IdleMaya
    /\ IdleAttr

\* one pass of the loop of EasyCopy up to used_names.add(valid_name)
NameObject ==
    /\ pcN = "naming"
    /\ name_i < Len(rh_names)
    /\ LET valid_name == assign_name(rh_names[name_i + 1], name_i, used_names)
       IN  /\ used_names' = used_names \cup {valid_name}
           /\ node_names' = Append(node_names, valid_name)
    /\ name_i' = name_i + 1
    /\ pcN' = IF name_i + 1 = Len(rh_names) THEN "done" ELSE "naming"
    /\ UNCHANGED rh_names
    /\ UNCHANGED <<varsFirst, varsP, varsX, varsA, varsThird>>

NextNames == NameObject

SpecNames == InitNames /\ [][NextNames]_vars

-----------------------------------------------------------------------------
(* Properties of the node names *)

NameChars == AsciiLetters \cup AsciiDigits \cup {"_"}

\* C11: for every non-empty host object name the name given to the node
\* consists only of characters in [A-Za-z0-9_] and does not start with a
\* digit.
C11_SanitizedNames ==
    \A k \in 1..Len(node_names) :
        rh_names[k] # <<>> =>
            /\ \A j \in 1..Len(node_names[k]) : node_names[k][j] \in NameChars
            /\ node_names[k][1] \notin AsciiDigits

\* the same for names whose characters are all ASCII
C11_AsciiNamesSanitized ==
    \A k \in 1..Len(node_names) :
        (/\ rh_names[k] # <<>>
         /\ \A j \in 1..Len(rh_names[k]) :
               rh_names[k][j] \notin OtherLetters \cup OtherDigits) =>
            /\ \A j \in 1..Len(node_names[k]) : node_names[k][j] \in NameChars
            /\ node_names[k][1] \notin AsciiDigits

NamesBefore(k) == {node_names[j] : j \in 1..(k - 1)}

\* C12: the names given to the nodes of one EasyCopy call are pairwise
\* distinct, and a name that collides gets the suffix _N with N the smallest
\* integer >= 1 for which base_N is not yet used.
C12_DistinctNames ==
    /\ \A j, k \in 1..Len(node_names) : j # k => node_names[j] # node_names[k]
    /\ \A k \in 1..Len(node_names) :
          LET base == base_name_of(rh_names[k], k - 1)
          IN  IF base \notin NamesBefore(k) THEN node_names[k] = base
              ELSE \E N \in 1..Len(rh_names) :
                      /\ node_names[k] = Suffixed(base, N)
                      /\ Suffixed(base, N) \notin NamesBefore(k)
                      /\ \A M \in 1..(N - 1) : Suffixed(base, M) \in NamesBefore(k)

\* three objects named A, A_1, A: the third becomes A_2
C12_Witness ==
    /\ pcN = "done"
    /\ rh_names = << <<"A">>, <<"A", "_", "1">>, <<"A">> >>
    /\ node_names[3] = <<"A", "_", "2">>

-----------------------------------------------------------------------------
(* Execute.EasyPaste of Rhino.  Meters per unit are held in thousandths    *)
(* (1.0 is 1000, 0.01 is 10); a scale factor is the fraction num/den of    *)
(* the division that produced it.  A 4x4 matrix is a sequence of four rows.*)

MaxPrims == 3

\* gf_mat[r][c] and xform.Mrc: row r, column c, both counted from 0
Entry(m, r, c) == m[r + 1][c + 1]

\* a transform that leaves one entry of the first row where it was
ToRhinoTransform_m03_kept(gf_mat) ==
    << <<Entry(gf_mat, 0, 0), Entry(gf_mat, 1, 0), Entry(gf_mat, 2, 0), Entry(gf_mat, 0, 3)>>,
       <<Entry(gf_mat, 0, 1), Entry(gf_mat, 1, 1), Entry(gf_mat, 2, 1), Entry(gf_mat, 3, 1)>>,
       <<Entry(gf_mat, 0, 2), Entry(gf_mat, 1, 2), Entry(gf_mat, 2, 2), Entry(gf_mat, 3, 2)>>,
       <<Entry(gf_mat, 0, 3), Entry(gf_mat, 1, 3), Entry(gf_mat, 2, 3), Entry(gf_mat, 3, 3)>> >>

\* Utility.ToRhinoTransform: the rows are M00..M03, M10..M13, M20..M23,
\* M30..M33 as assigned in lines 728-731
ToRhinoTransform(gf_mat) ==
    << <<Entry(gf_mat, 0, 0), Entry(gf_mat, 1, 0), Entry(gf_mat, 2, 0), Entry(gf_mat, 3, 0)>>,
       <<Entry(gf_mat, 0, 1), Entry(gf_mat, 1, 1), Entry(gf_mat, 2, 1), Entry(gf_mat, 3, 1)>>,
       <<Entry(gf_mat, 0, 2), Entry(gf_mat, 1, 2), Entry(gf_mat, 2, 2), Entry(gf_mat, 3, 2)>>,
       <<Entry(gf_mat, 0, 3), Entry(gf_mat, 1, 3), Entry(gf_mat, 2, 3), Entry(gf_mat, 3, 3)>> >>

\* world matrices of the prims: the identity, a translation in USD's row
\* vector layout, and a matrix whose sixteen entries all differ
IdentityMatrix ==
    << <<1, 0, 0, 0>>, <<0, 1, 0, 0>>, <<0, 0, 1, 0>>, <<0, 0, 0, 1>> >>

TranslationMatrix ==
    << <<1, 0, 0, 0>>, <<0, 1, 0, 0>>, <<0, 0, 1, 0>>, <<5, 6, 7, 1>> >>

DistinctMatrix ==
    << <<11, 12, 13, 14>>, <<21, 22, 23, 24>>, <<31, 32, 33, 34>>,
       <<41, 42, 43, 44>> >>

\* a slip of the unit handling: the ratio is taken the other way round
unit_ratio_inverted(file_meters, current_meters_factor) ==
    IF current_meters_factor > 0
    THEN [num |-> current_meters_factor, den |-> file_meters]
    ELSE One

\* lines 862-864: world_scale
unit_ratio(file_meters, current_meters_factor) ==
    IF current_meters_factor > 0
    THEN [num |-> file_meters, den |-> current_meters_factor]
    ELSE One

\* world_scale != 1.0
IsNotOne(f) == f.num # f.den

\* rh_mesh.IsValid, line 522: every corner of every face is a vertex of the
\* mesh
mesh_IsValid(usd, mesh_faces) ==
    \A k \in 1..Len(mesh_faces) :
        \A j \in 1..Len(mesh_faces[k]) :
            mesh_faces[k][j] \in 0..(Len(usd.points) - 1)

\* what the converter called for a prim hands back to EasyPaste: the number
\* of (geometry, attr) pairs, or an exception that leaves the converter
Converted(n) == [raised |-> FALSE, pairs |-> n]

convert_prim(prim) ==
    IF prim.kind = "Mesh"
    THEN LET res == Import_Mesh(prim.mesh)
         IN  IF res.result = "raised" THEN [raised |-> TRUE, pairs |-> 0]
             ELSE IF res.result = "none" THEN Converted(0)
             ELSE IF ~mesh_IsValid(prim.mesh, res.faces) THEN Converted(0)
             ELSE Converted(1)
    ELSE IF prim.kind = "Points"
    THEN IF prim.points = <<>> THEN Converted(0) ELSE Converted(1)
    ELSE IF prim.kind \in {"NurbsCurves", "BasisCurves"}
    THEN Converted(prim.curves)
    ELSE Converted(0)

\* lines 896-920 for one (geometry, attr) pair: the transform, the unit
\* scale, and the object handed to doc_objects.Add
\* a slip of the order: the unit scale is applied before the transform
pasted_geometry_scale_first(prim_index, prim, scale) ==
    [node |-> prim_index,
     transforms |-> <<ToRhinoTransform(prim.xform)>>,
     scales |-> IF IsNotOne(scale) THEN <<scale>> ELSE <<>>,
     ops |-> (IF IsNotOne(scale) THEN <<"Scale">> ELSE <<>>)
             \o <<"Transform", "Add">>]

\* ops: the calls made on the geometry, in the order they are made
pasted_geometry(prim_index, prim, scale) ==
    [node |-> prim_index,
     transforms |-> <<ToRhinoTransform(prim.xform)>>,
     scales |-> IF IsNotOne(scale) THEN <<scale>> ELSE <<>>,
     ops |-> <<"Transform">>
             \o (IF IsNotOne(scale) THEN <<"Scale">> ELSE <<>>)
             \o <<"Add">>]

\* the prims stage.Traverse() yields
MeshPrim(counts, indices, xform) ==
    [kind |-> "Mesh", xform |-> xform,
     mesh |-> [points |-> <<1, 2, 3>>, faceVertexCounts |-> counts,
               faceVertexIndices |-> indices]]

PrimChoices ==
    { MeshPrim(<<3>>, <<0, 1, 2>>, DistinctMatrix),
      \* the counts sum to 6, three indices are stored
      MeshPrim(<<3, 3>>, <<0, 1, 2>>, IdentityMatrix),
      \* index 5 with three points
      MeshPrim(<<3>>, <<0, 1, 5>>, IdentityMatrix),
      [kind |-> "Points", xform |-> TranslationMatrix, points |-> <<1>>],
      [kind |-> "NurbsCurves", xform |-> TranslationMatrix, curves |-> 2],
      [kind |-> "BasisCurves", xform |-> IdentityMatrix, curves |-> 1],
      [kind |-> "Xform", xform |-> IdentityMatrix] }

\* UsdGeom.GetStageMetersPerUnit(stage), thousandths
FileMeters == {0, 10, 1000}

\* Rhino.RhinoMath.UnitScale(ModelUnitSystem, Meters), thousandths
RhinoMeters == {10, 1000}

StageChoices ==
    { [kind |-> "stage", metersPerUnit |-> m, nodes |-> ps] :
        m \in FileMeters,
        ps \in UNION {[1..n -> PrimChoices] : n \in 1..MaxPrims} }

SelectionChoices == {{}, {0}}

-----------------------------------------------------------------------------
(* BlenderPaste.execute (JSON) and EasyPaste.execute (USD) of Blender *)

\* type_str = obj_data.get("type", "").upper(), for the type names written
\* by the exporters
upper(t) ==
    IF t = "Mesh" THEN "MESH"
    ELSE IF t = "Nurbs" THEN "NURBS"
    ELSE t

\* obj_data.get("unit", 1.0)
get_unit(obj) == IF "unit" \in DOMAIN obj THEN obj.unit ELSE 1000

Abs(x) == IF x < 0 THEN -x ELSE x

\* lines 645-650: scale_factor; abs(source_scale - target_scale) > 1e-9 with
\* both in thousandths is source_scale # target_scale
scale_factor_of(source_scale, target_scale) ==
    IF source_scale # target_scale
    THEN [num |-> source_scale, den |-> target_scale]
    ELSE One

\* abs(scale_factor - 1.0) > 1e-6
FarFromOne(f) == Abs(f.num - f.den) * 1000000 > Abs(f.den)

\* ToOBJ.create_mesh, lines 315-316, and ToOBJ.create_curve, lines 442-443:
\* whether an object comes back
create_mesh_returns(obj) ==
    {"vertices", "faces", "edges"} \subseteq obj.keys

create_curve_returns(obj) ==
    "points" \in obj.keys \/ "degree" \in obj.keys

\* a dispatch that hands every object to create_mesh, whatever its type
created_any_type(obj) == create_mesh_returns(obj)

\* lines 652-662: obj is not None
created(obj) ==
    LET type_str == upper(obj.type)
    IN  IF type_str = "MESH" THEN create_mesh_returns(obj)
        ELSE IF type_str \in {"POLY", "BEZIER", "NURBS"}
        THEN create_curve_returns(obj)
        ELSE FALSE

MeshKeys == {"vertices", "faces", "edges"}

ObjChoices ==
    { [type |-> "Mesh", unit |-> 1000, keys |-> MeshKeys],
      [type |-> "MESH", unit |-> 10, keys |-> MeshKeys],
      [type |-> "MESH", unit |-> 0, keys |-> MeshKeys],
      [type |-> "MESH", unit |-> 1000, keys |-> {"vertices"}],
      [type |-> "NURBS", unit |-> 1000, keys |-> {"points", "degree"}],
      [type |-> "POLY", keys |-> {"points"}],
      [type |-> "BEZIER", unit |-> 10, keys |-> {"degree"}],
      [type |-> "SURFACE", unit |-> 10, keys |-> MeshKeys] }

\* context.scene.unit_settings.scale_length, thousandths
BlenderMeters == {10, 1000}

JsonChoices ==
    { [kind |-> "json", nodes |-> os] :
        os \in UNION {[1..n -> ObjChoices] : n \in 1..MaxPrims} }

-----------------------------------------------------------------------------
(* Specification SpecPaste: one paste call in one of the hosts *)

InitPaste ==
    /\ host_app \in {"rhino", "blender_json", "blender_usd"}
    /\ pcP = "clipboard"
    /\ clipboard \in {"no_text", "no_such_path", "path"}
    /\ doc = NoDoc
    /\ host_meters = 1
    /\ world_scale = One
    /\ node_i = 0
    /\ host_objects = <<>>
    /\ host_selection \in SelectionChoices
    /\ selection_before = host_selection
    /\ IdleFirst
    /\ IdleThird
    /\ IdleNames
    /\ IdleMaya
    /\ IdleAttr

\* Rhino EasyPaste, lines 838-851: 1. Get Path
GetPath ==
    /\ host_app = "rhino"
    /\ pcP = "clipboard"
    /\ pcP' = IF clipboard = "path" THEN "open" ELSE "aborted"
    /\ UNCHANGED <<host_app, clipboard, doc, host_meters, world_scale, node_i,
                   host_objects, host_selection, selection_before>>
    /\ UNCHANGED <<varsFirst, varsN, varsX, varsA, varsThird>>

\* lines 853-857: 2. Open Stage; Usd.Stage.Open hands back a stage or None,
\* or raises
OpenStage ==
    /\ host_app = "rhino"
    /\ pcP = "open"
    /\ \/ /\ doc' \in StageChoices
          /\ pcP' = "units"
       \/ /\ doc' = NoDoc
          /\ pcP' \in {"aborted", "open_raised"}
    /\ UNCHANGED <<host_app, clipboard, host_meters, world_scale, node_i,
                   host_objects, host_selection, selection_before>>
    /\ UNCHANGED <<varsFirst, varsN, varsX, varsA, varsThird>>

\* lines 859-870: 3. Handle Units, and doc_objects.UnselectAll()
HandleUnits ==
    /\ host_app = "rhino"
    /\ pcP = "units"
    /\ host_meters' \in RhinoMeters
    /\ world_scale' = unit_ratio(doc.metersPerUnit, host_meters')
    /\ host_selection' = {}
    /\ pcP' = "traverse"
    /\ UNCHANGED <<host_app, clipboard, doc, node_i, host_objects,
                   selection_before>>
    /\ UNCHANGED <<varsFirst, varsN, varsX, varsA, varsThird>>

\* lines 872-920: one pass of "for prim in stage.Traverse()"
ImportPrim ==
    /\ host_app = "rhino"
    /\ pcP = "traverse"
    /\ LET prim == doc.nodes[node_i + 1]
           res == convert_prim(prim)
           first == Len(host_objects) + 1
       IN  IF res.raised
           THEN /\ pcP' = "raised"
                /\ UNCHANGED <<node_i, host_objects, host_selection>>
           ELSE /\ host_objects' = host_objects \o
                      [k \in 1..res.pairs |->
                          pasted_geometry(node_i + 1, prim, world_scale)]
                /\ host_selection' = host_selection \cup
                      (first..(first + res.pairs - 1))
                /\ node_i' = node_i + 1
                /\ pcP' = IF node_i + 1 = Len(doc.nodes) THEN "done"
                          ELSE "traverse"
    /\ UNCHANGED <<host_app, clipboard, doc, host_meters, world_scale,
                   selection_before>>
    /\ UNCHANGED <<varsFirst, varsN, varsX, varsA, varsThird>>

\* BlenderPaste.execute, lines 611-635: the file is found and read
ReadJson ==
    /\ host_app = "blender_json"
    /\ pcP = "clipboard"
    /\ \/ /\ doc' \in JsonChoices
          /\ pcP' = "loaded"
       \/ /\ doc' = NoDoc
          /\ pcP' = "cancelled"
    /\ UNCHANGED <<host_app, clipboard, host_meters, world_scale, node_i,
                   host_objects, host_selection, selection_before>>
    /\ UNCHANGED <<varsFirst, varsN, varsX, varsA, varsThird>>

\* lines 637-642: select_all(action='DESELECT') and target_scale
Deselect ==
    /\ host_app = "blender_json"
    /\ pcP = "loaded"
    /\ host_selection' = {}
    /\ host_meters' \in BlenderMeters
    /\ pcP' = "objects"
    /\ UNCHANGED <<host_app, clipboard, doc, world_scale, node_i,
                   host_objects, selection_before>>
    /\ UNCHANGED <<varsFirst, varsN, varsX, varsA, varsThird>>

\* lines 643-678: one pass of "for obj_data in data_list"
PasteObject ==
    /\ host_app = "blender_json"
    /\ pcP = "objects"
    /\ LET obj_data_i == doc.nodes[node_i + 1]
           scale_factor == scale_factor_of(get_unit(obj_data_i), host_meters)
       IN  IF created(obj_data_i)
           THEN /\ host_objects' = Append(host_objects,
                      [node |-> node_i + 1,
                       transforms |-> <<>>,
                       scales |-> IF FarFromOne(scale_factor)
                                  THEN <<scale_factor>> ELSE <<>>])
                /\ host_selection' =
                      IF FarFromOne(scale_factor)
                      THEN {Len(host_objects) + 1} ELSE host_selection
           ELSE UNCHANGED <<host_objects, host_selection>>
    /\ node_i' = node_i + 1
    /\ pcP' = IF node_i + 1 = Len(doc.nodes) THEN "select" ELSE "objects"
    /\ UNCHANGED <<host_app, clipboard, doc, host_meters, world_scale,
                   selection_before>>
    /\ UNCHANGED <<varsFirst, varsN, varsX, varsA, varsThird>>

\* lines 680-688: Select all pasted objects
SelectPasted ==
    /\ host_app = "blender_json"
    /\ pcP = "select"
    /\ host_selection' = 1..Len(host_objects)
    /\ pcP' = "finished"
    /\ UNCHANGED <<host_app, clipboard, doc, host_meters, world_scale, node_i,
                   host_objects, selection_before>>
    /\ UNCHANGED <<varsFirst, varsN, varsX, varsA, varsThird>>

\* EasyPaste.execute of ET_blender.py, lines 89-94: GetTempPath
UsdGetTempPath ==
    /\ host_app = "blender_usd"
    /\ pcP = "clipboard"
    /\ pcP' = IF clipboard = "path" THEN "usd_import" ELSE "cancelled"
    /\ UNCHANGED <<host_app, clipboard, doc, host_meters, world_scale, node_i,
                   host_objects, host_selection, selection_before>>
    /\ UNCHANGED <<varsFirst, varsN, varsX, varsA, varsThird>>

\* lines 96-122: select_all(action='DESELECT'), then bpy.ops.wm.usd_import,
\* which adds and selects the objects of the file or raises
UsdImport ==
    /\ host_app = "blender_usd"
    /\ pcP = "usd_import"
    /\ \/ \E n \in 0..MaxPrims :
             /\ doc' = [kind |-> "usd_file", nodes |-> n]
             /\ host_objects' = [k \in 1..n |->
                                    [node |-> k, transforms |-> <<>>,
                                     scales |-> <<>>]]
             /\ host_selection' = 1..n
             /\ pcP' = "finished"
       \/ /\ doc' = NoDoc
          /\ host_selection' = {}
          /\ pcP' = "cancelled"
          /\ UNCHANGED host_objects
    /\ UNCHANGED <<host_app, clipboard, host_meters, world_scale, node_i,
                   selection_before>>
    /\ UNCHANGED <<varsFirst, varsN, varsX, varsA, varsThird>>

NextPaste ==
    \/ GetPath \/ OpenStage \/ HandleUnits \/ ImportPrim
    \/ ReadJson \/ Deselect \/ PasteObject \/ SelectPasted
    \/ UsdGetTempPath \/ UsdImport

SpecPaste == InitPaste /\ [][NextPaste]_vars

-----------------------------------------------------------------------------
(* Properties of the paste calls *)

NodesRead == doc.kind \in {"stage", "json"}

\* meters per unit of the document, for the node an object came from
NodeUnit(o) ==
    IF host_app = "rhino" THEN doc.metersPerUnit
    ELSE get_unit(doc.nodes[o.node])

\* the factor the geometry of an object was scaled by
AppliedScale(o) == IF o.scales = <<>> THEN One ELSE o.scales[1]

\* C13: on import the uniform scale factor applied to geometry equals
\* documentMetersPerUnit / hostMetersPerUnit for every pair of positive
\* unit values; with document unit 1.0 and host unit 0.01 it is 100.
C13_ScaleFactor ==
    (host_app \in {"rhino", "blender_json"} /\ NodesRead) =>
        \A k \in 1..Len(host_objects) :
            LET o == host_objects[k]
                f == AppliedScale(o)
                d == NodeUnit(o)
            IN  (d > 0 /\ host_meters > 0) =>
                    /\ Len(o.scales) <= 1
                    /\ f.den > 0
                    /\ f.num * host_meters = f.den * d
                    /\ (d = 1000 /\ host_meters = 10) => f.num = 100 * f.den

C13_Witness ==
    /\ host_app = "rhino"
    /\ NodesRead
    /\ doc.metersPerUnit = 1000
    /\ host_meters = 10
    /\ \E k \in 1..Len(host_objects) :
          /\ host_objects[k].scales # <<>>
          /\ host_objects[k].scales[1].num = 100 * host_objects[k].scales[1].den

\* C14: when the document's or the host's meters-per-unit value is zero or
\* negative the import is rejected and aborted before any host state is
\* changed: no selection change, no object added, no geometry scaled by a
\* substitute factor.
C14_BadUnitsRejected ==
    /\ (/\ host_app = "rhino"
        /\ pcP \in {"traverse", "done", "raised"}
        /\ (doc.metersPerUnit <= 0 \/ host_meters <= 0)) =>
            /\ pcP = "rejected"
            /\ host_selection = selection_before
            /\ host_objects = <<>>
    /\ (/\ host_app = "blender_json"
        /\ NodesRead
        /\ \E j \in 1..node_i : get_unit(doc.nodes[j]) <= 0) =>
            /\ pcP = "rejected"
            /\ host_selection = selection_before
            /\ host_objects = <<>>

\* C16: Utility.ToRhinoTransform maps a document matrix G to the host matrix
\* M with M[r][c] = G[c][r] for all r, c in 0..3, and Rhino EasyPaste
\* applies it exactly once to each imported geometry.
C16_TransposedOnce ==
    (host_app = "rhino" /\ NodesRead) =>
        \A k \in 1..Len(host_objects) :
            LET o == host_objects[k]
                G == doc.nodes[o.node].xform
            IN  /\ Len(o.transforms) = 1
                /\ \A r, c \in 0..3 :
                      Entry(o.transforms[1], r, c) = Entry(G, c, r)

C16_Witness ==
    /\ host_app = "rhino"
    /\ NodesRead
    /\ \E k \in 1..Len(host_objects) :
          /\ doc.nodes[host_objects[k].node].xform = DistinctMatrix
          /\ Entry(host_objects[k].transforms[1], 0, 3) = 41

\* the number of host objects made from node j
ObjectsOf(j) == Cardinality({k \in 1..Len(host_objects) : host_objects[k].node = j})

RhinoKinds == {"Mesh", "Points", "NurbsCurves", "BasisCurves"}

\* a node of a recognised kind whose conversion gives nothing
FailsToConvert(prim) ==
    /\ prim.kind \in RhinoKinds
    /\ (convert_prim(prim).raised \/ convert_prim(prim).pairs = 0)

PasteOver == pcP \in {"done", "raised"}

\* C17: a node whose conversion fails (no geometry, face-vertex counts that
\* sum to more than the number of indices, or an index out of range) is
\* skipped, and every later node of the document is still converted and
\* added to the host.
C17_FailedNodeSkipped ==
    (host_app = "rhino" /\ PasteOver) =>
        \A i, j \in 1..Len(doc.nodes) :
            (/\ i < j
             /\ FailsToConvert(doc.nodes[i])
             /\ ~convert_prim(doc.nodes[j]).raised) =>
                ObjectsOf(j) = convert_prim(doc.nodes[j]).pairs

\* the same for failed nodes that give no geometry without raising, in
\* documents none of whose nodes raises
C17_EmptyNodeSkipped ==
    (/\ host_app = "rhino"
     /\ PasteOver
     /\ \A i \in 1..Len(doc.nodes) : ~convert_prim(doc.nodes[i]).raised) =>
        /\ pcP = "done"
        /\ \A j \in 1..Len(doc.nodes) :
              ObjectsOf(j) = convert_prim(doc.nodes[j]).pairs

DocumentLevelAbort == pcP \in {"aborted", "open_raised", "cancelled"}

\* C18: when a paste aborts on a document-level failure (no existing path
\* in the clipboard, the document cannot be opened or read, or the import
\* of the file fails) the host selection is the same as before the call and
\* no object has been added.
C18_AbortLeavesHost ==
    DocumentLevelAbort =>
        /\ host_selection = selection_before
        /\ host_objects = <<>>

\* the same for the Rhino call and the JSON paste of Blender
C18_AbortLeavesHostRhinoJson ==
    (DocumentLevelAbort /\ host_app \in {"rhino", "blender_json"}) =>
        /\ host_selection = selection_before
        /\ host_objects = <<>>

Recognised(node) ==
    IF host_app = "rhino" THEN node.kind \in RhinoKinds
    ELSE upper(node.type) \in {"MESH", "POLY", "BEZIER", "NURBS"}

Yields(node) ==
    IF host_app = "rhino" THEN convert_prim(node).pairs
    ELSE IF created(node) THEN 1 ELSE 0

\* C19: a node whose type is none of the recognised kinds is skipped
\* without creating a host object and without aborting the call; the
\* recognised nodes before and after it are still imported.
C19_UnknownTypeSkipped ==
    (host_app \in {"rhino", "blender_json"} /\ NodesRead) =>
        /\ \A j \in 1..node_i :
              IF Recognised(doc.nodes[j])
              THEN ObjectsOf(j) = Yields(doc.nodes[j])
              ELSE ObjectsOf(j) = 0
        /\ (pcP = "raised") => Recognised(doc.nodes[node_i + 1])
        /\ (node_i < Len(doc.nodes) /\ ~Recognised(doc.nodes[node_i + 1])) =>
              pcP \in {"traverse", "objects", "units", "loaded"}

C19_Witness ==
    /\ host_app = "rhino"
    /\ pcP = "done"
    /\ Len(doc.nodes) = 3
    /\ doc.nodes[2].kind = "Xform"
    /\ ObjectsOf(1) > 0
    /\ ObjectsOf(2) = 0
    /\ ObjectsOf(3) > 0

-----------------------------------------------------------------------------
(* MayaCopy.process_mesh, lines 136-152, and MayaPaste.create_object,      *)
(* lines 272-278: the world matrix of a mesh.  An MMatrix is a sequence of *)
(* four rows; list(MMatrix) and the m flag of cmds.xform both run through  *)
(* the sixteen entries row by row.                                         *)

MaxOffset == 2

\* MMatrix.transpose()
transpose(m) == [r \in 1..4 |-> [c \in 1..4 |-> m[c][r]]]

\* list(mm_transposed): 16 floats
list_of_matrix(m) == [k \in 1..16 |-> m[((k - 1) \div 4) + 1][((k - 1) % 4) + 1]]

\* cmds.xform(path, m=mat_list, ws=True): the world matrix whose rows are
\* mat_list[0:4], mat_list[4:8], mat_list[8:12], mat_list[12:16]
xform_matrix(mat_list) == [r \in 1..4 |-> [c \in 1..4 |-> mat_list[4 * (r - 1) + c]]]

\* process_mesh, lines 139-141
copied_matrix(world) == list_of_matrix(transpose(world))

\* world matrices of Maya: a uniform scale s, a shear h and a translation
\* (tx, ty, tz) in the last row
MayaMatrix(s, h, tx, ty, tz) ==
    << <<s, h, 0, 0>>, <<0, s, 0, 0>>, <<0, 0, s, 0>>, <<tx, ty, tz, 1>> >>

InitMaya ==
    /\ pcX = "scene"
    /\ \E s \in 1..2, h \in 0..1, tx, ty, tz \in 0..MaxOffset :
          mm = MayaMatrix(s, h, tx, ty, tz)
    /\ flat_matrix = <<>>
    /\ pasted_matrix = <<>>
    /\ IdleFirst
    /\ IdleThird
    /\ IdleNames
    /\ IdlePaste
    /\ IdleAttr

\* MayaCopy.process_mesh, 4. Matrix
MayaCopyMatrix ==
    /\ pcX = "scene"
    /\ flat_matrix' = copied_matrix(mm)
    /\ pcX' = "copied"
    /\ UNCHANGED <<mm, pasted_matrix>>
    /\ UNCHANGED <<varsFirst, varsN, varsP, varsA, varsThird>>

\* MayaPaste.create_object, Apply Matrix
MayaPasteMatrix ==
    /\ pcX = "copied"
    /\ pasted_matrix' = IF Len(flat_matrix) = 16 THEN xform_matrix(flat_matrix)
                        ELSE <<>>
    /\ pcX' = "pasted"
    /\ UNCHANGED <<mm, flat_matrix>>
    /\ UNCHANGED <<varsFirst, varsN, varsP, varsA, varsThird>>

NextMaya == MayaCopyMatrix \/ MayaPasteMatrix

SpecMaya == InitMaya /\ [][NextMaya]_vars

\* C15: MayaCopy followed by MayaPaste in Maya applies to the pasted object
\* a world matrix equal entry for entry to the one read on copy.
C15_MatrixRoundTrip ==
    pcX = "pasted" => pasted_matrix = mm

\* what the pasted object gets is the transposed matrix
C15_PastedIsTransposed ==
    pcX = "pasted" => pasted_matrix = transpose(mm)

-----------------------------------------------------------------------------
(* Attribute.Encode and the primvar loop of Attribute.ImportMeshAttr.      *)
(* A packed buffer is held as its format and the values packed; the text   *)
(* of str(usd_array) is held as the array it prints.                       *)

MaxAttrs == 2

\* USD_TYPE_CONFIG, the rows used here: format character and flatten level
TypeTable == {"float", "float3", "double", "matrix2d", "int", "bool"}

fmt_char_of(usd_type) ==
    IF usd_type \in {"float", "float3"} THEN "f"
    ELSE IF usd_type \in {"double", "matrix2d"} THEN "d"
    ELSE IF usd_type = "int" THEN "i"
    ELSE "?"

flatten_level_of(usd_type) ==
    IF usd_type \in {"float", "double", "int", "bool"} THEN 0
    ELSE IF usd_type = "float3" THEN 1
    ELSE 2

\* [val for vec in usd_array for val in vec]
RECURSIVE Flatten1(_)
Flatten1(usd_array) ==
    IF usd_array = <<>> THEN <<>>
    ELSE Head(usd_array) \o Flatten1(Tail(usd_array))

\* lines 57-64: flat_list
flat_list_of(usd_array, flatten_level) ==
    IF flatten_level = 0 THEN usd_array
    ELSE IF flatten_level = 1 THEN Flatten1(usd_array)
    ELSE Flatten1(Flatten1(usd_array))

\* Attribute.Encode
Encode(usd_array, usd_type, function) ==
    IF function = "base64"
    THEN IF usd_array = <<>> THEN None
         ELSE IF usd_type \notin TypeTable THEN None
         ELSE LET flat_list == flat_list_of(usd_array, flatten_level_of(usd_type))
              IN  [kind |-> "base64",
                   fmt |-> <<Len(flat_list), fmt_char_of(usd_type)>>,
                   values |-> flat_list]
    ELSE IF function = "string"
    THEN [kind |-> "string", text |-> usd_array]
    ELSE None

\* "if encoded_data:"
Truthy(e) == e # None

\* rh_attr.SetUserString(key, value)
SetUserString(us, key, value) ==
    [k \in (DOMAIN us) \cup {key} |-> IF k = key THEN value ELSE us[k]]

\* f"{interpolation}:{base_name}[{usd_type}]" and f"{base_name}[{usd_type}]"
DomainKey(attr) ==
    [interpolation |-> attr.interpolation, base_name |-> attr.base_name,
     usd_type |-> attr.usd_type]

PlainKey(attr) ==
    [interpolation |-> "", base_name |-> attr.base_name,
     usd_type |-> attr.usd_type]

SkippedNames == {"displayColor", "displayOpacity", "st"}

\* the primvars of the prim; the element type "token" is not in the table
PrimvarChoices ==
    << [base_name |-> "rough", interpolation |-> "constant",
       usd_type |-> "float", data |-> <<5>>],
      [base_name |-> "id", interpolation |-> "vertex",
       usd_type |-> "int", data |-> <<1, 2>>],
      [base_name |-> "none", interpolation |-> "vertex",
       usd_type |-> "int", data |-> <<>>],
      [base_name |-> "N", interpolation |-> "vertex",
       usd_type |-> "float3", data |-> << <<1, 2, 3>> >>],
      [base_name |-> "part", interpolation |-> "uniform",
       usd_type |-> "token", data |-> <<8, 9>>],
      [base_name |-> "kind", interpolation |-> "constant",
       usd_type |-> "token", data |-> <<8>>],
      [base_name |-> "displayColor", interpolation |-> "vertex",
       usd_type |-> "float3", data |-> << <<1, 1, 1>> >>],
      [base_name |-> "frame", interpolation |-> "vertex",
       usd_type |-> "matrix2d", data |-> << << <<1, 2>>, <<3, 4>> >> >>] >>

InitAttr ==
    /\ pcA = "attrs"
    /\ \E n \in 1..MaxAttrs :
          \E pick \in [1..n -> 1..Len(PrimvarChoices)] :
              primvars = [k \in 1..n |-> PrimvarChoices[pick[k]]]
    /\ attr_i = 0
    /\ user_strings = <<>>
    /\ encode_args = NoCall
    /\ encoded = None
    /\ IdleFirst
    /\ IdleThird
    /\ IdleNames
    /\ IdlePaste
    /\ IdleMaya

\* ImportMeshAttr, lines 111-124: one pass of "for attr in primvars"
ImportPrimvar ==
    /\ pcA = "attrs"
    /\ LET attr == primvars[attr_i + 1]
       IN  IF attr.base_name \in SkippedNames
           THEN UNCHANGED <<user_strings, encode_args, encoded>>
           ELSE IF attr.interpolation = "constant"
           THEN /\ user_strings' =
                      SetUserString(user_strings, PlainKey(attr),
                                    [kind |-> "string", text |-> attr.data[1]])
                /\ UNCHANGED <<encode_args, encoded>>
           ELSE LET encoded_data == Encode(attr.data, attr.usd_type, "string")
                IN  /\ encode_args' = [function |-> "string",
                                       usd_type |-> attr.usd_type,
                                       usd_array |-> attr.data]
                    /\ encoded' = encoded_data
                    /\ user_strings' =
                          IF Truthy(encoded_data)
                          THEN SetUserString(user_strings, DomainKey(attr),
                                             encoded_data)
                          ELSE user_strings
    /\ attr_i' = attr_i + 1
    /\ pcA' = IF attr_i + 1 = Len(primvars) THEN "done" ELSE "attrs"
    /\ UNCHANGED primvars
    /\ UNCHANGED <<varsFirst, varsN, varsP, varsX, varsThird>>

\* a call of Attribute.Encode on the value of a primvar, with either
\* function
EncodeCall ==
    /\ pcA = "attrs"
    /\ attr_i = 0
    /\ encode_args = NoCall
    /\ \E a \in 1..Len(PrimvarChoices), function \in {"base64", "string"} :
          LET attr == PrimvarChoices[a]
          IN  /\ encode_args' = [function |-> function,
                                 usd_type |-> attr.usd_type,
                                 usd_array |-> attr.data]
              /\ encoded' = Encode(attr.data, attr.usd_type, function)
    /\ UNCHANGED <<pcA, primvars, attr_i, user_strings>>
    /\ UNCHANGED <<varsFirst, varsN, varsP, varsX, varsThird>>

NextAttr == ImportPrimvar \/ EncodeCall

SpecAttr == InitAttr /\ [][NextAttr]_vars

-----------------------------------------------------------------------------
(* Properties of the attribute codec *)

EncodeCalled == encode_args.function # "none"

\* C20: Attribute.Encode called with an element type that is not in the
\* type table fails for every non-empty input (no payload comes back); the
\* attribute is dropped and the rest of the node is converted.
C20_UnknownTypeDropped ==
    /\ (/\ EncodeCalled
        /\ encode_args.usd_type \notin TypeTable
        /\ encode_args.usd_array # <<>>) => encoded = None
    /\ \A j \in 1..attr_i :
          (/\ primvars[j].base_name \notin SkippedNames
           /\ primvars[j].interpolation # "constant"
           /\ primvars[j].usd_type \notin TypeTable
           /\ primvars[j].data # <<>>) =>
              DomainKey(primvars[j]) \notin DOMAIN user_strings

\* the same for calls with function = "base64"
C20_UnknownTypeNoBase64 ==
    (/\ EncodeCalled
     /\ encode_args.function = "base64"
     /\ encode_args.usd_type \notin TypeTable
     /\ encode_args.usd_array # <<>>) => encoded = None

Visited(j) == j \in 1..attr_i /\ primvars[j].base_name \notin SkippedNames

\* C21: an attribute whose value array is empty yields no payload on every
\* encoding path (function="base64" and function="string"), so the import
\* routine writes no user string for an empty non-constant primvar.
C21_EmptyArrayNoPayload ==
    /\ (EncodeCalled /\ encode_args.usd_array = <<>>) => encoded = None
    /\ \A j \in 1..Len(primvars) :
          (/\ Visited(j)
           /\ primvars[j].interpolation # "constant"
           /\ primvars[j].data = <<>>) =>
              DomainKey(primvars[j]) \notin DOMAIN user_strings

\* the same for calls with function = "base64"
C21_EmptyArrayNoBase64 ==
    (/\ EncodeCalled
     /\ encode_args.function = "base64"
     /\ encode_args.usd_array = <<>>) => encoded = None

\* C22: a constant primvar is stored as a single value under the key
\* name[type], and every primvar of any other interpolation domain is
\* stored through the binary-blob path (packed buffer, base64 text),
\* whatever its number of elements.
C22_BlobForOtherDomains ==
    \A j \in 1..Len(primvars) :
        (Visited(j) /\ primvars[j].data # <<>>) =>
            IF primvars[j].interpolation = "constant"
            THEN /\ PlainKey(primvars[j]) \in DOMAIN user_strings
                 /\ user_strings[PlainKey(primvars[j])].text = primvars[j].data[1]
            ELSE /\ DomainKey(primvars[j]) \in DOMAIN user_strings
                 /\ user_strings[DomainKey(primvars[j])].kind = "base64"

\* what the loop does store: constant primvars as a single value, the
\* others as the text of the whole array under interpolation:name[type]
C22_TextForOtherDomains ==
    \A j \in 1..Len(primvars) :
        (Visited(j) /\ primvars[j].data # <<>>) =>
            IF primvars[j].interpolation = "constant"
            THEN /\ PlainKey(primvars[j]) \in DOMAIN user_strings
                 /\ user_strings[PlainKey(primvars[j])].text = primvars[j].data[1]
            ELSE /\ DomainKey(primvars[j]) \in DOMAIN user_strings
                 /\ user_strings[DomainKey(primvars[j])] =
                       [kind |-> "string", text |-> primvars[j].data]

-----------------------------------------------------------------------------
(* Further properties of the curve basis engine *)

\* the branches that require count % degree == 0
ModulusFails == use_cyclic_u /\ use_bezier_u /\ Len(pt) % degree # 0

\* C24: when calculate_knots returns an empty knot vector because the
\* modulus precondition fails, the curve record carries no knots and the
\* curve is either exported with all of its control points or not exported
\* at all; a record with neither knots nor control points is never written.
C24_ModulusFailureRecord ==
    (pcK = "record" /\ ModulusFails /\ knots = <<>>) =>
        /\ json_obj.knots = <<>>
        /\ Len(json_obj.points) = Len(pt)

\* what is written in that case: a record with no knots and no points
C24_EmptyRecordWritten ==
    (pcK \in {"record", "raised"} /\ ModulusFails) =>
        /\ pcK = "record"
        /\ json_obj.knots = <<>>
        /\ json_obj.points = <<>>

-----------------------------------------------------------------------------
(* Blender add-on, easytransfer_blender.py: ToJSON.convert_mesh and          *)
(* ToOBJ.create_mesh, which carry the crease value of every edge.            *)

\* e_crease_array: zeros, overwritten by the attribute "crease_edge" when it
\* exists with domain 'EDGE'
e_crease_array(es, domain, values) ==
    IF domain = "EDGE" THEN values ELSE [i \in 1..Len(es) |-> 0]

\* 2. Edges: {"ids": ev, "crease": ec} for every edge
convert_mesh_edges(es, ec_list) ==
    ListOf(Len(es), LAMBDA i : [ids |-> At(es, i), crease |-> At(ec_list, i)])

\* 3. Faces: {"ids": list(poly.vertices)} for every polygon
convert_mesh_faces(polys) == ListOf(Len(polys), LAMBDA i : [ids |-> At(polys, i)])

\* the record of a mesh; vertex coordinates and vertex creases are not
\* followed, each vertex is written with crease 0
convert_mesh(polys, es, domain, values) ==
    [type |-> "MESH",
     vertices |-> [i \in 1..MaxVerts |-> [crease |-> 0]],
     edges |-> convert_mesh_edges(es, e_crease_array(es, domain, values)),
     faces |-> convert_mesh_faces(polys)]

\* the keys of creased_pairs: the sorted pair of every edge with
\* crease_val > 0.0
creased_pair_keys(data) ==
    {SortedPair(data.edges[i].ids[1], data.edges[i].ids[2]) :
        i \in {j \in 1..Len(data.edges) : data.edges[j].crease > 0}}

\* creased_pairs[pair] = crease_val: a later edge of the same pair
\* overwrites an earlier one
creased_pairs_dict(data) ==
    [pr \in creased_pair_keys(data) |->
        LET last == CHOOSE j \in 1..Len(data.edges) :
                       /\ data.edges[j].crease > 0
                       /\ SortedPair(data.edges[j].ids[1], data.edges[j].ids[2]) = pr
                       /\ \A k \in (j + 1)..Len(data.edges) :
                             ~ /\ data.edges[k].crease > 0
                               /\ SortedPair(data.edges[k].ids[1],
                                             data.edges[k].ids[2]) = pr
        IN  data.edges[last].crease]

\* val = creased_pairs.get(pair); if val: values[i] = val
create_mesh_values(mesh_edges, dict) ==
    ListOf(Len(mesh_edges),
           LAMBDA i :
              LET pr == SortedPair(At(mesh_edges, i)[1], At(mesh_edges, i)[2])
              IN  IF pr \in DOMAIN dict /\ dict[pr] # 0 THEN dict[pr] ELSE 0)

\* None when a key is missing; otherwise the mesh built from the faces,
\* with the attribute "crease_edge" when creased_pairs is not empty
create_mesh(data, mesh_edges) ==
    IF ~ ({"vertices", "faces", "edges"} \subseteq DOMAIN data) THEN NoObject
    ELSE LET dict == creased_pairs_dict(data)
         IN  [created |-> TRUE,
              edges |-> mesh_edges,
              has_crease_att |-> DOMAIN dict # {},
              values |-> IF DOMAIN dict # {}
                         THEN create_mesh_values(mesh_edges, dict)
                         ELSE <<>>]

ConvertMesh ==
    /\ pcB = "source"
    /\ obj_data' = convert_mesh(polygons, edges, crease_domain, crease_values)
    /\ pcB' = "converted"
    /\ UNCHANGED <<polygons, edges, crease_domain, crease_values, new_mesh>>
    /\ UNCHANGED <<varsK, varsM, varsLater>>

CreateMesh ==
    /\ pcB = "converted"
    /\ \E numbering \in HostEdgeNumberings(
                           [i \in 1..Len(obj_data.faces) |-> obj_data.faces[i].ids]) :
          new_mesh' = create_mesh(obj_data, numbering)
    /\ pcB' = "created"
    /\ UNCHANGED <<polygons, edges, crease_domain, crease_values, obj_data>>
    /\ UNCHANGED <<varsK, varsM, varsLater>>

NextCreaseValues ==
    AddPolygon \/ AddLooseEdge \/ SetCrease \/ ConvertMesh \/ CreateMesh

SpecCreaseValues == InitCrease /\ [][NextCreaseValues]_vars

\* the crease value the source mesh holds for an unordered vertex pair
SourceCrease(pr) ==
    IF crease_domain = "EDGE" /\ pr \in EdgePairs(edges)
    THEN crease_values[CHOOSE j \in 1..Len(edges) :
                          SortedPair(edges[j][1], edges[j][2]) = pr]
    ELSE 0

\* C25: with convert_mesh and create_mesh an edge is restored as creased
\* only if its sharpness in the source mesh exceeds the threshold 0.1; an
\* edge whose sharpness is greater than 0 but at most 0.1 is not creased in
\* the imported mesh.
C25_CreasedOnlyAboveThreshold ==
    (pcB = "created") =>
        \A i \in 1..Len(new_mesh.edges) :
            MarkedSharp(i) =>
                SourceCrease(SortedPair(new_mesh.edges[i][1],
                                        new_mesh.edges[i][2])) > CreaseThreshold

\* what the two routines do: every edge of a polygon comes back with the
\* crease value it had, however small
C25_CreaseValueCarried ==
    (pcB = "created") =>
        \A i \in 1..Len(new_mesh.edges) :
            LET v == SourceCrease(SortedPair(new_mesh.edges[i][1],
                                             new_mesh.edges[i][2]))
            IN  /\ MarkedSharp(i) <=> v > 0
                /\ MarkedSharp(i) => new_mesh.values[i] = v

-----------------------------------------------------------------------------
(* Rhino Attribute.Export and the custom attributes of ImportMeshAttr.       *)
(* A key or an attribute name is a sequence of tokens, standing for their    *)
(* concatenation: <<"userProperties:", "mat">> is "userProperties:mat".      *)

MaxTrips == 2

KeyChoices == { <<"mat">>, <<"layer">>, <<"area">> }

ValueChoices == {"steel", "7"}

\* attr_name = f"userProperties:{key}"
attr_name_of(key) == <<"userProperties:">> \o key

\* usd_prim.CreateAttribute takes a namespaced identifier; a name holding a
\* bracket is none
IsIdentifierName(name) == \A i \in 1..Len(name) : name[i] \notin {"[", "]"}

\* the attributes Export leaves on the prim when CreateAttribute accepts
\* exactly the keys of kept: attr.Set(str(val)) on a String attribute
Export_attrs(strings, kept) ==
    [name \in {attr_name_of(key) : key \in kept} |->
        [type |-> "string", custom |-> TRUE, value |-> strings[Tail(name)]]]

\* base_name = name.split("userProperties:", 1)[1] if "userProperties:" in
\* name else name
base_name_of_attr(name) ==
    IF \E i \in 1..Len(name) : name[i] = "userProperties:"
    THEN LET first == CHOOSE i \in 1..Len(name) :
                         /\ name[i] = "userProperties:"
                         /\ \A j \in 1..(i - 1) : name[j] # "userProperties:"
         IN  SubSeq(name, first + 1, Len(name))
    ELSE name

\* domain_key = f"{base_name}[{usd_type}]"
domain_key(name, usd_type) == base_name_of_attr(name) \o <<"[", usd_type, "]">>

\* for attr in user_props: if not attr.IsCustom(): continue;
\* rh_attr.SetUserString(domain_key, str(attr.Get()))
ImportCustomAttrs(props) ==
    LET custom == {name \in DOMAIN props : props[name].custom}
    IN  [key \in {domain_key(name, props[name].type) : name \in custom} |->
            LET name == CHOOSE nm \in custom :
                           domain_key(nm, props[nm].type) = key
            IN  props[name].value]

InitProps ==
    /\ pcU = "object"
    /\ \E keys \in SUBSET KeyChoices : rh_strings \in [keys -> ValueChoices]
    /\ first_strings = rh_strings
    /\ usd_props = <<>>
    /\ new_strings = <<>>
    /\ trips = 0
    /\ IdleFirst
    /\ IdleNames
    /\ IdlePaste
    /\ IdleMaya
    /\ IdleAttr
    /\ IdleCurve

\* Attribute.Export: one attribute per key; a key whose attribute cannot be
\* created is passed over (except Exception: pass).  Whether the library
\* takes a name that is no identifier is not settled by the source: both
\* outcomes are kept.
ExportProps ==
    /\ pcU = "object"
    /\ \E kept \in SUBSET (DOMAIN rh_strings) :
          /\ \A key \in DOMAIN rh_strings :
                IsIdentifierName(attr_name_of(key)) => key \in kept
          /\ usd_props' = Export_attrs(rh_strings, kept)
    /\ pcU' = "exported"
    /\ UNCHANGED <<first_strings, rh_strings, new_strings, trips>>
    /\ UNCHANGED <<varsFirst, varsN, varsP, varsX, varsA, varsC>>

\* ImportMeshAttr, lines 101-108
ImportProps ==
    /\ pcU = "exported"
    /\ new_strings' = ImportCustomAttrs(usd_props)
    /\ pcU' = "imported"
    /\ trips' = trips + 1
    /\ UNCHANGED <<first_strings, rh_strings, usd_props>>
    /\ UNCHANGED <<varsFirst, varsN, varsP, varsX, varsA, varsC>>

\* the new object is copied in its turn
CopyAgain ==
    /\ pcU = "imported"
    /\ trips < MaxTrips
    /\ rh_strings' = new_strings
    /\ usd_props' = <<>>
    /\ new_strings' = <<>>
    /\ pcU' = "object"
    /\ UNCHANGED <<first_strings, trips>>
    /\ UNCHANGED <<varsFirst, varsN, varsP, varsX, varsA, varsC>>

NextProps == ExportProps \/ ImportProps \/ CopyAgain

SpecProps == InitProps /\ [][NextProps]_vars

\* C23: for every user string with key K and value V on an exported
\* object, Attribute.Export followed by the import attribute routine
\* restores on the new object a user string with the same key K and the
\* same value V; repeating export and import any number of times leaves the
\* set of keys unchanged.
C23_PropsRestored ==
    (pcU = "imported") =>
        /\ \A key \in DOMAIN rh_strings :
              /\ key \in DOMAIN new_strings
              /\ new_strings[key] = rh_strings[key]
        /\ DOMAIN new_strings = DOMAIN first_strings

\* what comes back: no key of the exported object, and for every key whose
\* attribute was created the key followed by "[string]", with its value
C23_KeysComeBackTagged ==
    (pcU = "imported") =>
        /\ \A key \in DOMAIN rh_strings :
              /\ key \notin DOMAIN new_strings
              /\ IsIdentifierName(key) =>
                    /\ key \o <<"[", "string", "]">> \in DOMAIN new_strings
                    /\ new_strings[key \o <<"[", "string", "]">>] = rh_strings[key]
        /\ \A key \in DOMAIN new_strings : Len(key) >= 4

-----------------------------------------------------------------------------
(* Further properties of Export.Mesh and Import.Mesh *)

\* the document faces with more than four vertices
LargeFaces(usd) ==
    {p \in 1..Len(usd.faceVertexCounts) : usd.faceVertexCounts[p] > 4}

\* the run of triangle indices Import.Mesh generates for document face p
TriangleRun(usd, p) ==
    [i \in 1..(usd.faceVertexCounts[p] - 2) |-> FacesBefore(usd, p) + i - 1]

\* C26: in Import.Mesh each face with count > 4 produces exactly one
\* reconstructed n-gon record, owning the whole contiguous run of count-2
\* triangle indices generated for that face; the number of n-gons added to
\* the mesh equals the number of faces with count > 4, and the triangle runs
\* of different n-gons are disjoint.
C26_OneNgonPerLargeFace ==
    (pcM = "imported" /\ rh_mesh.result = "mesh") =>
        /\ \A p \in LargeFaces(usd_mesh) :
              Cardinality({n \in 1..Len(rh_mesh.ngons) :
                              rh_mesh.ngons[n].f_indices = TriangleRun(usd_mesh, p)}) = 1
        /\ Len(rh_mesh.ngons) = Cardinality(LargeFaces(usd_mesh))
        /\ \A n, m \in 1..Len(rh_mesh.ngons) :
              n # m => Range(rh_mesh.ngons[n].f_indices)
                          \cap Range(rh_mesh.ngons[m].f_indices) = {}

\* what the loop hands to AddNgons: for a face with count k, k-2 records
\* that all own the same run
C26_OneNgonPerTriangle ==
    (pcM = "imported" /\ rh_mesh.result = "mesh") =>
        /\ \A p \in LargeFaces(usd_mesh) :
              Cardinality({n \in 1..Len(rh_mesh.ngons) :
                              rh_mesh.ngons[n].f_indices = TriangleRun(usd_mesh, p)})
                 = usd_mesh.faceVertexCounts[p] - 2
        /\ Len(rh_mesh.ngons) =
              SumSeq([p \in 1..Len(usd_mesh.faceVertexCounts) |->
                         IF usd_mesh.faceVertexCounts[p] > 4
                         THEN usd_mesh.faceVertexCounts[p] - 2 ELSE 0])

\* the host faces of the mesh that emitted face p of the document stands
\* for: the faces of the n-gon, or the single remaining face
EmittedNgons == {n \in 1..Len(ngons) : Len(ngons[n].boundary) > 0}

RemainingFaces ==
    {i \in 0..(Len(faces) - 1) :
        i \notin UNION {Range(ngons[n].faces) : n \in EmittedNgons}}

\* the lowest host face index behind every emitted face, in emission order
RECURSIVE Ascending(_)
Ascending(S) ==
    IF S = {} THEN <<>>
    ELSE LET m == CHOOSE x \in S : \A y \in S : x <= y
         IN  <<m>> \o Ascending(S \ {m})

MinOf(S) == CHOOSE x \in S : \A y \in S : x <= y

FirstHostFaces ==
    [n \in 1..Len(Ascending(EmittedNgons)) |->
        MinOf(Range(ngons[Ascending(EmittedNgons)[n]].faces))]
    \o Ascending(RemainingFaces)

\* C27: Export.Mesh emits faces in the original face order of the host
\* mesh: for any two emitted faces, the one whose first constituent host
\* face has the lower index appears first in faceVertexCounts, also when the
\* mesh mixes n-gons with triangles and quads.
C27_OriginalFaceOrder ==
    (pcM = "exported") =>
        /\ Len(FirstHostFaces) = Len(usd_mesh.faceVertexCounts)
        /\ \A a, b \in 1..Len(FirstHostFaces) :
              a < b => FirstHostFaces[a] < FirstHostFaces[b]

\* the order Export.Mesh emits in: every n-gon, in the order of mesh.Ngons,
\* and after them the remaining faces by ascending index
C27_NgonsThenFaces ==
    (pcM = "exported") =>
        /\ Len(FirstHostFaces) = Len(usd_mesh.faceVertexCounts)
        /\ \A a \in 1..Len(Ascending(EmittedNgons)) :
              usd_mesh.faceVertexCounts[a]
                 = Len(ngons[Ascending(EmittedNgons)[a]].boundary)
        /\ \A a \in 1..Len(Ascending(RemainingFaces)) :
              usd_mesh.faceVertexCounts[Len(Ascending(EmittedNgons)) + a]
                 = Len(At(faces, Ascending(RemainingFaces)[a]))

-----------------------------------------------------------------------------
(* Blender add-on, easytransfer_blender.py: ToOBJ.analyze_knots and          *)
(* ToOBJ.create_curve.                                                       *)

MaxKnots == 6

MaxKnotValue == 3

\* np.allclose(a, b) with the default rtol = 1e-5 (atol = 1e-8 is below
\* what integer-valued knots can tell apart): |a - b| <= 1e-5 * |b|
allclose(a, b) == Abs(a - b) * 100000 <= Abs(b)

\* knots[:degree+1]
head_slice(kn, d) == SubSeq(kn, 1, IF d + 1 < Len(kn) THEN d + 1 ELSE Len(kn))

\* knots[-(degree+1):]
tail_slice(kn, d) ==
    SubSeq(kn, IF Len(kn) - d > 1 THEN Len(kn) - d ELSE 1, Len(kn))

\* np.diff(knots), and of those the ones > 1e-6
diffs(kn) == [i \in 1..(Len(kn) - 1) |-> kn[i + 1] - kn[i]]

valid_diffs(kn) == SelectSeq(diffs(kn), LAMBDA x : x > 0)

\* np.allclose(valid_diffs, mean_step, rtol=1e-3) with mean_step =
\* sum / count: |v - sum/count| <= 1e-3 * sum/count, cleared of fractions
is_uniform(vd) ==
    \A i \in 1..Len(vd) :
        Abs(vd[i] * Len(vd) - SumSeq(vd)) * 1000 <= SumSeq(vd)

\* a slip of the clamping test: only the start of the vector is looked at
analyze_knots_start_only(kn, d, point_count) ==
    IF kn = <<>> \/ Len(kn) < 2 * d THEN NoAnalysis
    ELSE LET start_clamped ==
                 \A i \in 1..Len(head_slice(kn, d)) :
                     allclose(head_slice(kn, d)[i], kn[1])
             is_endpoint == start_clamped
             is_closed ==
                 /\ ~is_endpoint
                 /\ Len(valid_diffs(kn)) > 0
                 /\ is_uniform(valid_diffs(kn))
         IN  [is_closed |-> is_closed,
              is_endpoint |-> is_endpoint,
              is_bezier |-> is_endpoint /\ point_count = d + 1]

\* analyze_knots(knots, degree, point_count) -> (is_closed, is_endpoint,
\* is_bezier)
analyze_knots(kn, d, point_count) ==
    IF kn = <<>> \/ Len(kn) < 2 * d THEN NoAnalysis
    ELSE LET start_clamped ==
                 \A i \in 1..Len(head_slice(kn, d)) :
                     allclose(head_slice(kn, d)[i], kn[1])
             end_clamped ==
                 \A i \in 1..Len(tail_slice(kn, d)) :
                     allclose(tail_slice(kn, d)[i], kn[Len(kn)])
             is_endpoint == start_clamped /\ end_clamped
             is_closed ==
                 /\ ~is_endpoint
                 /\ Len(valid_diffs(kn)) > 0
                 /\ is_uniform(valid_diffs(kn))
         IN  [is_closed |-> is_closed,
              is_endpoint |-> is_endpoint,
              is_bezier |-> is_endpoint /\ point_count = d + 1]

\* the flags create_curve sets on the new spline (lines 449-471); add_ok
\* tells whether spline.points.add(n_points - 1) went through
create_curve(data, add_ok) ==
    IF "points" \notin DOMAIN data /\ "degree" \notin DOMAIN data THEN NoSpline
    ELSE LET calc == analyze_knots(data.knots, data.degree, Len(data.points))
             is_closed ==
                 IF data.knots # <<>> /\ calc.is_endpoint THEN FALSE
                 ELSE IF data.knots # <<>> /\ calc.is_closed THEN TRUE
                 ELSE data.closed
             use_endpoint == data.knots # <<>> /\ calc.is_endpoint
         IN  IF add_ok
             THEN [created |-> TRUE,
                   order_u |-> data.degree + 1,
                   use_cyclic_u |-> is_closed,
                   use_endpoint_u |-> use_endpoint]
             ELSE NoSpline

\* the knot vectors handed to analyze_knots: nondecreasing, integer-valued
KnotVectors ==
    UNION { {kn \in [1..n -> 0..MaxKnotValue] :
                \A i \in 1..(n - 1) : kn[i] <= kn[i + 1]} : n \in 0..MaxKnots }

InitAnalyze ==
    /\ pcC = "input"
    /\ in_knots \in KnotVectors
    /\ in_degree \in 1..MaxDegree
    /\ in_count \in {in_degree + 1, in_degree + 2}
    /\ analysis = NoAnalysis
    /\ new_spline = NoSpline
    /\ IdleFirst
    /\ IdleNames
    /\ IdlePaste
    /\ IdleMaya
    /\ IdleAttr
    /\ IdleProps

AnalyzeKnots ==
    /\ pcC = "input"
    /\ analysis' = analyze_knots(in_knots, in_degree, in_count)
    /\ pcC' = "analyzed"
    /\ UNCHANGED <<in_knots, in_degree, in_count, new_spline>>
    /\ UNCHANGED <<varsFirst, varsN, varsP, varsX, varsA, varsU>>

NextAnalyze == AnalyzeKnots

SpecAnalyze == InitAnalyze /\ [][NextAnalyze]_vars

\* the record written by convert_nurbs is read back by create_curve; with
\* no point in the record spline.points.add(-1) is left to the host, which
\* may take it or raise
CreateCurve ==
    /\ pcK = "record"
    /\ pcC = "off"
    /\ \E add_ok \in BOOLEAN :
          /\ Len(json_obj.points) > 0 => add_ok
          /\ new_spline' = create_curve(json_obj, add_ok)
    /\ analysis' = IF json_obj.knots # <<>>
                   THEN analyze_knots(json_obj.knots, json_obj.degree,
                                      Len(json_obj.points))
                   ELSE NoAnalysis
    /\ pcC' = "curve"
    /\ UNCHANGED <<in_knots, in_degree, in_count>>
    /\ UNCHANGED <<varsK, varsM, varsB, varsN, varsP, varsX, varsA, varsU>>

NextCurve == CalculateKnots \/ ConvertNurbs \/ CreateCurve

SpecCurve == InitKnots /\ [][NextCurve]_vars

\* the first degree+1 knots are all equal, and so are the last degree+1
EndsClamped(kn, d) ==
    /\ \A i \in 1..(d + 1) : kn[i] = kn[1]
    /\ \A i \in (Len(kn) - d)..Len(kn) : kn[i] = kn[Len(kn)]

\* the step between distinct consecutive knots is constant
ConstantStep(kn) ==
    \A i, j \in 1..(Len(kn) - 1) :
        (kn[i + 1] # kn[i] /\ kn[j + 1] # kn[j]) =>
            kn[i + 1] - kn[i] = kn[j + 1] - kn[j]

Classified(kn, d, res) ==
    /\ res.is_endpoint <=> EndsClamped(kn, d)
    /\ res.is_closed <=> (~res.is_endpoint /\ ConstantStep(kn))
    /\ ~(res.is_closed /\ res.is_endpoint)

\* C28 as stated: for every knot vector with at least degree+1 entries,
\* analyze_knots reports endpoint exactly when the first degree+1 knots are
\* all equal and the last degree+1 knots are all equal, and reports cyclic
\* exactly when endpoint is false and the step between distinct consecutive
\* knots is constant; it never reports cyclic and endpoint both true.
C28_ClassifiedFromDegreePlusOne ==
    (pcC = "analyzed" /\ Len(in_knots) >= in_degree + 1) =>
        Classified(in_knots, in_degree, analysis)

\* C28: the same classification, for every knot vector with at least
\* 2 * degree entries, the length from which analyze_knots looks at the
\* knots at all; a shorter vector is reported as neither cyclic nor endpoint.
C28_ClassifiedFromTwiceDegree ==
    (pcC = "analyzed" /\ Len(in_knots) >= in_degree + 1) =>
        IF Len(in_knots) >= 2 * in_degree
        THEN Classified(in_knots, in_degree, analysis)
        ELSE ~analysis.is_closed /\ ~analysis.is_endpoint

\* a clamped vector of degree 2 that is long enough, reported as endpoint
C28_Witness ==
    /\ pcC = "analyzed"
    /\ in_degree = 2
    /\ in_knots = <<0, 0, 0, 1, 1, 1>>
    /\ analysis.is_endpoint /\ ~analysis.is_closed

\* C29: for every n, d and flag combination for which calculate_knots
\* returns a non-empty knot vector, a NURBS record exported by convert_nurbs
\* and re-created by create_curve yields a spline whose cyclic flag equals
\* the cyclic flag of the exported spline; in particular an open curve never
\* comes back closed.
C29_CyclicFlagRoundTrip ==
    (pcC = "curve" /\ knots # <<>> /\ new_spline.created) =>
        new_spline.use_cyclic_u = use_cyclic_u

\* what create_curve does with a record that carries knots: the flag of the
\* record is overridden by the classification of the knots
C29_CyclicFlagFromKnots ==
    (pcC = "curve" /\ knots # <<>> /\ new_spline.created) =>
        new_spline.use_cyclic_u =
            IF analysis.is_endpoint THEN FALSE
            ELSE IF analysis.is_closed THEN TRUE
            ELSE use_cyclic_u

-----------------------------------------------------------------------------
(* Further properties of Rhino EasyPaste *)

\* the positions of call c among the calls made on object o
CallsOf(o, c) == {i \in 1..Len(o.ops) : o.ops[i] = c}

\* C30: in Rhino EasyPaste, for every geometry produced from a node, the
\* node's local-to-world transform is applied first and the unit scale
\* second, each at most once and both before the geometry is added to the
\* host document; the unit scale step is performed exactly when the scale
\* factor differs from 1.
C30_TransformThenScaleThenAdd ==
    (host_app = "rhino") =>
        \A k \in 1..Len(host_objects) :
            LET o == host_objects[k]
            IN  /\ CallsOf(o, "Transform") = {1}
                /\ Cardinality(CallsOf(o, "Scale")) <= 1
                /\ CallsOf(o, "Add") = {Len(o.ops)}
                /\ \A i \in CallsOf(o, "Scale") : 1 < i /\ i < Len(o.ops)
                /\ (CallsOf(o, "Scale") # {}) <=> IsNotOne(world_scale)
                /\ (CallsOf(o, "Scale") # {}) => o.scales = <<world_scale>>

\* a paste where the factor is not 1: an object transformed, then scaled,
\* then added; the paste with factor 1 is C30_WitnessNoScale
C30_Witness ==
    /\ host_app = "rhino"
    /\ NodesRead
    /\ IsNotOne(world_scale)
    /\ \E k \in 1..Len(host_objects) :
          /\ host_objects[k].ops = <<"Transform", "Scale", "Add">>
          /\ doc.nodes[host_objects[k].node].xform = DistinctMatrix

C30_WitnessNoScale ==
    /\ host_app = "rhino"
    /\ NodesRead
    /\ ~IsNotOne(world_scale)
    /\ \E k \in 1..Len(host_objects) :
          host_objects[k].ops = <<"Transform", "Add">>

=============================================================================
